---- MODULE Spec2Model ----
(***************************************************************************)
(* Verification model of python-dsa.                                       *)
(*                                                                         *)
(* Part 1: prime_factors.py -- find_divisors(n) and find_prime_factors(n). *)
(* Each function is modelled as an activation frame that is stepped one    *)
(* loop iteration at a time.  The caller is the walkthrough of the script  *)
(* (n = 60; find_divisors(n); find_prime_factors(n)) generalised to any n  *)
(* and any order of the two calls.  The interpreter is single threaded, so *)
(* at most one activation is running; what a call left behind is kept      *)
(* until the caller moves on to another n.                                 *)
(*                                                                         *)
(* int(math.sqrt(n)) is modelled as the exact integer square root, which   *)
(* is what the IEEE double computation yields for every n below 2^52; the  *)
(* inputs of the model are far inside that range.                          *)
(***************************************************************************)
EXTENDS Integers, Sequences, FiniteSets, TLC

\* Largest argument passed to either function.
MaxN == 64
\* Arguments range down to -MaxNeg.
MaxNeg == 2
\* Largest argument passed to the factorial functions.
MaxFactN == 8
\* Largest argument passed to the Fibonacci functions.
MaxFibN == 8
\* Every list over 1..MaxSortVal up to this length is an input of the
\* sorting and the reversal functions.
MaxSortLen == 4
\* The elements of those lists are 1..MaxSortVal.
MaxSortVal == 3
\* Every string over the alphabet up to this length is an input.
MaxStrLen == 5
\* Longer inputs, up to this length, are runs of "a" holding at most one "b"
\* (palindrome.py) and the lists [1, 2, ..., len] (reverse_array.py).
MaxLongLen == 14
\* Number of nested calls the interpreter allows a recursive function before
\* it raises RecursionError (about 1000 by default), scaled down.
RecursionLimit == 6

Inputs == (0 - MaxNeg)..MaxN

VARIABLES
    main_n,         \* the caller's variable n, passed to both functions
    fd_pc,          \* control point of find_divisors
    fd_n,           \* parameter n of find_divisors
    fd_i,           \* loop variable i of find_divisors
    fd_stop,        \* stop value of range(1, int(math.sqrt(n)) + 1)
    divisors,       \* the list divisors
    pf_pc,          \* control point of find_prime_factors
    pf_n,           \* the local n of find_prime_factors (reduced by n //= i)
    pf_i,           \* loop variable i of find_prime_factors
    pf_stop,        \* stop value of range(2, int(math.sqrt(n)) + 1)
    prime_factors,  \* the set prime_factors
    pf_divs,        \* number of executions of n //= i in the current call
    seen_kind,      \* which call the caller has noted: "none", "fd" or "pf"
    seen_n,         \* the argument of the noted call
    seen_out,       \* how the noted call ended: "done" or "ValueError"
    seen_res,       \* what the noted call returned
    fact_n,         \* factorial.py: the caller's n
    fl_pc,          \* control point of fact_loop
    fl_i,           \* loop variable i of fact_loop
    fl_result,      \* result of fact_loop
    fr_pc,          \* control point of fact_rec
    fr_n,           \* n of the innermost frame of fact_rec
    fr_depth,       \* number of frames of fact_rec on the stack
    fr_ret,         \* value returned by the frame of fact_rec that ended last
    ft_pc,          \* control point of fact_tail
    ft_n,           \* n of the innermost frame of fact_tail
    ft_acc,         \* accumulator of the innermost frame of fact_tail
    ft_depth,       \* number of frames of fact_tail on the stack
    ft_ret,         \* value returned by the frame of fact_tail that ended last
    fs_pc,          \* control point of factorial_safe
    fs_i,           \* loop variable i of factorial_safe
    fs_result,      \* result of factorial_safe (0 while unassigned)
    fib_n,          \* fibonacci.py: the caller's n
    fln_pc,         \* control point of fib_loop_nth
    fln_a,          \* a of fib_loop_nth
    fln_b,          \* b of fib_loop_nth
    fln_i,          \* loop variable i of fib_loop_nth
    fbr_pc,         \* control point of fib_rec
    fbr_stack,      \* frames of fib_rec, outermost first
    fbr_ret,        \* value returned by the frame of fib_rec that ended last
    fbm_pc,         \* control point of fib_memo
    fbm_stack,      \* frames of fib_memo, outermost first
    fbm_memo,       \* the dictionary memo shared by the frames of one call
    fbm_ret,        \* value returned by the frame of fib_memo that ended last
    fdp_pc,         \* control point of fib_dp
    fdp_dp,         \* the list dp (dp[k] of the code is fdp_dp[k + 1])
    fdp_i,          \* loop variable i of fib_dp
    fdp_ret,        \* value returned by fib_dp
    my_arr,         \* sorting: the caller's list; each call gets my_arr.copy()
    bs_pc,          \* control point of bubble_sort (bubble-sort.py)
    bs_arr,         \* the list arr of bubble_sort
    bs_i,           \* loop variable i of bubble_sort
    bs_j,           \* loop variable j of bubble_sort
    bs_ret,         \* the object bubble_sort returned ("none" before)
    is_pc,          \* control point of bubble_sort (instertion-sort.py)
    is_arr,         \* the list arr of the insertion sort
    is_i,           \* loop variable i of the insertion sort
    is_j,           \* j of the insertion sort
    is_key,         \* key of the insertion sort
    is_ret,         \* the object the insertion sort returned
    ss_pc,          \* control point of selection_sort
    ss_arr,         \* the list arr of selection_sort
    ss_i,           \* loop variable i of selection_sort
    ss_j,           \* loop variable j of selection_sort
    ss_min_idx,     \* min_idx of selection_sort
    ss_ret,         \* the object selection_sort returned
    ss_swaps,       \* how often selection_sort executed its swap statement
    my_str,         \* palindrome.py: the string under test
    ipf_pc,         \* control point of is_palindrome_for_loop
    ipf_i,          \* its loop variable i
    ipf_ret,        \* its return value
    ipw_pc,         \* control point of is_palindrome_while_loop
    ipw_start,      \* its left pointer
    ipw_end,        \* its right pointer
    ipw_ret,        \* its return value
    ipr_pc,         \* control point of is_palindrome_rec
    ipr_left,       \* left of the innermost frame
    ipr_right,      \* right of the innermost frame
    ipr_depth,      \* number of open frames of is_palindrome_rec
    ipr_ret,        \* value being returned by is_palindrome_rec
    ipp_pc,         \* control point of is_palindrome_pythonic
    ipp_ret,        \* its return value
    original,       \* reverse_array.py: the caller's list; calls get copies
    raf_pc,         \* control point of rev_arr_for_loop
    raf_arr,        \* the list passed to it (arr1)
    raf_i,          \* its loop variable i
    raf_ret,        \* the object it returned ("none" before)
    raw_pc,         \* control point of rev_arr_while_loop
    raw_arr,        \* the list passed to it (arr2)
    raw_start,      \* its left pointer
    raw_end,        \* its right pointer
    raw_ret,        \* the object it returned
    rap_pc,         \* control point of rev_arr_pythonic
    rap_arr,        \* the list passed to it (arr3)
    rap_ret,        \* the object it returned
    ras_pc,         \* control point of rev_arr_slicing
    ras_arr,        \* the list passed to it (arr4)
    ras_new,        \* the list object created by the slice
    ras_ret,        \* the object it returned
    rar_pc,         \* control point of rev_arr_recursion
    rar_arr,        \* the list passed to it (arr5)
    rar_left,       \* left of the innermost frame
    rar_right,      \* right of the innermost frame
    rar_depth,      \* number of open frames of rev_arr_recursion
    rar_ret,        \* the object it returned
    pv_pc,          \* control point of the find_prime_factors variant
    pv_m,           \* its working value m
    pv_i,           \* its candidate i
    pv_result       \* its result set

fdVars == <<fd_pc, fd_n, fd_i, fd_stop, divisors>>
pfVars == <<pf_pc, pf_n, pf_i, pf_stop, prime_factors, pf_divs>>
seenVars == <<seen_kind, seen_n, seen_out, seen_res>>
primeVars == <<main_n, fdVars, pfVars, seenVars>>
flVars == <<fl_pc, fl_i, fl_result>>
frVars == <<fr_pc, fr_n, fr_depth, fr_ret>>
ftVars == <<ft_pc, ft_n, ft_acc, ft_depth, ft_ret>>
fsVars == <<fs_pc, fs_i, fs_result>>
factVars == <<fact_n, flVars, frVars, ftVars, fsVars>>
flnVars == <<fln_pc, fln_a, fln_b, fln_i>>
fbrVars == <<fbr_pc, fbr_stack, fbr_ret>>
fbmVars == <<fbm_pc, fbm_stack, fbm_memo, fbm_ret>>
fdpVars == <<fdp_pc, fdp_dp, fdp_i, fdp_ret>>
fibVars == <<fib_n, flnVars, fbrVars, fbmVars, fdpVars>>
bsVars == <<bs_pc, bs_arr, bs_i, bs_j, bs_ret>>
isVars == <<is_pc, is_arr, is_i, is_j, is_key, is_ret>>
ssVars == <<ss_pc, ss_arr, ss_i, ss_j, ss_min_idx, ss_ret, ss_swaps>>
sortVars == <<my_arr, bsVars, isVars, ssVars>>
ipfVars == <<ipf_pc, ipf_i, ipf_ret>>
ipwVars == <<ipw_pc, ipw_start, ipw_end, ipw_ret>>
iprVars == <<ipr_pc, ipr_left, ipr_right, ipr_depth, ipr_ret>>
ippVars == <<ipp_pc, ipp_ret>>
palVars == <<my_str, ipfVars, ipwVars, iprVars, ippVars>>
rafVars == <<raf_pc, raf_arr, raf_i, raf_ret>>
rawVars == <<raw_pc, raw_arr, raw_start, raw_end, raw_ret>>
rapVars == <<rap_pc, rap_arr, rap_ret>>
rasVars == <<ras_pc, ras_arr, ras_new, ras_ret>>
rarVars == <<rar_pc, rar_arr, rar_left, rar_right, rar_depth, rar_ret>>
revVars == <<original, rafVars, rawVars, rapVars, rasVars, rarVars>>
pvVars == <<pv_pc, pv_m, pv_i, pv_result>>
\* Everything outside prime_factors.py's two functions and their caller
\* (the variant of find_prime_factors the specification allows included).
notPrime == <<seenVars, factVars, fibVars, sortVars, palVars, revVars, pvVars>>
\* Everything outside factorial.py.
notFact == <<primeVars, fibVars, sortVars, palVars, revVars, pvVars>>
\* Everything outside fibonacci.py.
notFib == <<primeVars, factVars, sortVars, palVars, revVars, pvVars>>
\* Everything outside the sorting files.
notSort == <<primeVars, factVars, fibVars, palVars, revVars, pvVars>>
\* Everything outside palindrome.py.
notPal == <<primeVars, factVars, fibVars, sortVars, revVars, pvVars>>
\* Everything outside reverse_array.py.
notRev == <<primeVars, factVars, fibVars, sortVars, palVars, pvVars>>
vars == <<main_n, fd_pc, fd_n, fd_i, fd_stop, divisors,
          pf_pc, pf_n, pf_i, pf_stop, prime_factors, pf_divs,
          seen_kind, seen_n, seen_out, seen_res,
          fact_n, fl_pc, fl_i, fl_result, fr_pc, fr_n, fr_depth, fr_ret,
          ft_pc, ft_n, ft_acc, ft_depth, ft_ret, fs_pc, fs_i, fs_result,
          fib_n, fln_pc, fln_a, fln_b, fln_i, fbr_pc, fbr_stack, fbr_ret,
          fbm_pc, fbm_stack, fbm_memo, fbm_ret,
          fdp_pc, fdp_dp, fdp_i, fdp_ret,
          my_arr, bs_pc, bs_arr, bs_i, bs_j, bs_ret,
          is_pc, is_arr, is_i, is_j, is_key, is_ret,
          ss_pc, ss_arr, ss_i, ss_j, ss_min_idx, ss_ret, ss_swaps,
          my_str, ipf_pc, ipf_i, ipf_ret,
          ipw_pc, ipw_start, ipw_end, ipw_ret,
          ipr_pc, ipr_left, ipr_right, ipr_depth, ipr_ret,
          ipp_pc, ipp_ret,
          original, raf_pc, raf_arr, raf_i, raf_ret,
          raw_pc, raw_arr, raw_start, raw_end, raw_ret,
          rap_pc, rap_arr, rap_ret,
          ras_pc, ras_arr, ras_new, ras_ret,
          rar_pc, rar_arr, rar_left, rar_right, rar_depth, rar_ret,
          pv_pc, pv_m, pv_i, pv_result>>

----------------------------------------------------------------------------
(* Library functions the code calls.                                       *)

\* The integer part of the real square root of n >= 0.
FloorSqrt(n) == CHOOSE r \in 0..n : r * r <= n /\ (r + 1) * (r + 1) > n

\* math.sqrt without the domain check (what math.sqrt(abs(n)) would do
\* around zero): used to show the effect of losing the ValueError.
MathSqrt_NoDomainCheck(n) ==
    [exc |-> "none", val |-> IF n < 0 THEN 0 ELSE FloorSqrt(n)]

\* int(math.sqrt(n)): math.sqrt raises ValueError (math domain error) for a
\* negative argument; otherwise int() truncates the root.
MathSqrt(n) ==
    IF n < 0 THEN [exc |-> "ValueError", val |-> 0]
             ELSE [exc |-> "none", val |-> FloorSqrt(n)]

\* range stop that forgets the "+ 1".
RangeStop_Exclusive(root) == root

\* range stop that is one too large.
RangeStop_PlusTwo(root) == root + 2

\* The stop value int(math.sqrt(n)) + 1 of both range() calls.
RangeStop(root) == root + 1

\* The position that list.sort() (stable, ascending) gives to element j of s.
SortedPosition(s, j) ==
    Cardinality({t \in DOMAIN s : s[t] < s[j] \/ (s[t] = s[j] /\ t <= j)})

\* list.sort(): the elements of s in non-decreasing order.
ListSort(s) ==
    [k \in 1..Len(s) |-> s[CHOOSE j \in DOMAIN s : SortedPosition(s, j) = k]]

----------------------------------------------------------------------------
(* find_divisors                                                           *)

\* Loop body that appends the complement unconditionally.
FD_Body_NoSquareCheck(divs, n, i) ==
    IF n % i = 0 THEN Append(Append(divs, i), n \div i) ELSE divs

\* Loop body that appends only i.
FD_Body_NoComplement(divs, n, i) ==
    IF n % i = 0 THEN Append(divs, i) ELSE divs

\* Body of the for loop of find_divisors: the list after candidate i.
FD_Body(divs, n, i) ==
    IF n % i = 0
    THEN IF i # n \div i
         THEN Append(Append(divs, i), n \div i)
         ELSE Append(divs, i)
    ELSE divs

\* First candidate of range(2, ...) in find_prime_factors.
PF_First == 2

FD_Running == fd_pc = "for"
PF_Running == pf_pc \in {"for", "while", "post"}

\* The caller assigns its n; what earlier calls returned is dropped.
Main_Assign(n) ==
    /\ ~FD_Running /\ ~PF_Running
    /\ main_n' = n
    /\ fd_pc' = "idle" /\ fd_n' = 0 /\ fd_i' = 1 /\ fd_stop' = 0
    /\ divisors' = <<>>
    /\ pf_pc' = "idle" /\ pf_n' = 0 /\ pf_i' = PF_First /\ pf_stop' = 0
    /\ prime_factors' = {} /\ pf_divs' = 0
    /\ UNCHANGED notPrime

\* find_divisors(n) is called: divisors = [], then the range is built.
FD_Call ==
    /\ ~FD_Running /\ ~PF_Running
    /\ fd_n' = main_n
    /\ divisors' = <<>>
    /\ fd_i' = 1
    /\ IF MathSqrt(main_n).exc = "none"
       THEN /\ fd_stop' = RangeStop(MathSqrt(main_n).val)
            /\ fd_pc' = "for"
       ELSE /\ fd_stop' = 0
            /\ fd_pc' = MathSqrt(main_n).exc
    /\ UNCHANGED <<main_n, pfVars, notPrime>>

\* One iteration of "for i in range(1, stop)".
FD_Iter ==
    /\ fd_pc = "for"
    /\ fd_i < fd_stop
    /\ divisors' = FD_Body(divisors, fd_n, fd_i)
    /\ fd_i' = fd_i + 1
    /\ UNCHANGED <<fd_pc, fd_n, fd_stop>>
    /\ UNCHANGED <<main_n, pfVars, notPrime>>

\* The range is exhausted: divisors.sort(); return divisors.
FD_Return ==
    /\ fd_pc = "for"
    /\ fd_i >= fd_stop
    /\ divisors' = ListSort(divisors)
    /\ fd_pc' = "done"
    /\ UNCHANGED <<fd_n, fd_i, fd_stop>>
    /\ UNCHANGED <<main_n, pfVars, notPrime>>

----------------------------------------------------------------------------
(* find_prime_factors                                                      *)

\* Condition of the inner while loop.
PF_WhileCond(m, i) == m % i = 0

\* Division that reduces by one instead of dividing.
PF_Divide_Decrement(m, i) == m - 1

\* Division that leaves the value as it is.
PF_Divide_Identity(m, i) == m

\* n //= i
PF_Divide(m, i) == m \div i

\* Post-loop step that never adds the residual.
PF_PostAdd_Never(s, m) == s

\* Post-loop step that adds the residual whenever it is positive.
PF_PostAdd_Positive(s, m) == IF m > 0 THEN s \cup {m} ELSE s

\* if n > 1: prime_factors.add(n)
PF_PostAdd(s, m) == IF m > 1 THEN s \cup {m} ELSE s

\* find_prime_factors(n) is called: prime_factors = set(), then the range.
PF_Call ==
    /\ ~FD_Running /\ ~PF_Running
    /\ pf_n' = main_n
    /\ prime_factors' = {}
    /\ pf_i' = PF_First
    /\ pf_divs' = 0
    /\ IF MathSqrt(main_n).exc = "none"
       THEN /\ pf_stop' = RangeStop(MathSqrt(main_n).val)
            /\ pf_pc' = "for"
       ELSE /\ pf_stop' = 0
            /\ pf_pc' = MathSqrt(main_n).exc
    /\ UNCHANGED <<main_n, fdVars, notPrime>>

\* The for loop takes its next candidate i and enters the while loop.
PF_ForNext ==
    /\ pf_pc = "for"
    /\ pf_i < pf_stop
    /\ pf_pc' = "while"
    /\ UNCHANGED <<pf_n, pf_i, pf_stop, prime_factors, pf_divs>>
    /\ UNCHANGED <<main_n, fdVars, notPrime>>

\* Inner loop whose n is the caller's variable (as under "global n").
PF_WhileBody_Global ==
    /\ pf_pc = "while"
    /\ PF_WhileCond(pf_n, pf_i)
    /\ prime_factors' = prime_factors \cup {pf_i}
    /\ pf_n' = PF_Divide(pf_n, pf_i)
    /\ main_n' = PF_Divide(pf_n, pf_i)
    /\ pf_divs' = pf_divs + 1
    /\ UNCHANGED <<pf_pc, pf_i, pf_stop>>
    /\ UNCHANGED <<fdVars, notPrime>>

\* Inner loop that divides without recording the factor.
PF_WhileBody_NoAdd ==
    /\ pf_pc = "while"
    /\ PF_WhileCond(pf_n, pf_i)
    /\ pf_n' = PF_Divide(pf_n, pf_i)
    /\ pf_divs' = pf_divs + 1
    /\ UNCHANGED <<pf_pc, pf_i, pf_stop, prime_factors>>
    /\ UNCHANGED <<main_n, fdVars, notPrime>>

\* while n % i == 0: prime_factors.add(i); n //= i
PF_WhileBody ==
    /\ pf_pc = "while"
    /\ PF_WhileCond(pf_n, pf_i)
    /\ prime_factors' = prime_factors \cup {pf_i}
    /\ pf_n' = PF_Divide(pf_n, pf_i)
    /\ pf_divs' = pf_divs + 1
    /\ UNCHANGED <<pf_pc, pf_i, pf_stop>>
    /\ UNCHANGED <<main_n, fdVars, notPrime>>

\* The while condition is false: back to the for loop, next candidate.
PF_WhileExit ==
    /\ pf_pc = "while"
    /\ ~PF_WhileCond(pf_n, pf_i)
    /\ pf_i' = pf_i + 1
    /\ pf_pc' = "for"
    /\ UNCHANGED <<pf_n, pf_stop, prime_factors, pf_divs>>
    /\ UNCHANGED <<main_n, fdVars, notPrime>>

\* The range is exhausted: fall out of the for loop.
PF_ForExit ==
    /\ pf_pc = "for"
    /\ pf_i >= pf_stop
    /\ pf_pc' = "post"
    /\ UNCHANGED <<pf_n, pf_i, pf_stop, prime_factors, pf_divs>>
    /\ UNCHANGED <<main_n, fdVars, notPrime>>

\* if n > 1: prime_factors.add(n); return prime_factors
PF_Return ==
    /\ pf_pc = "post"
    /\ prime_factors' = PF_PostAdd(prime_factors, pf_n)
    /\ pf_pc' = "done"
    /\ UNCHANGED <<pf_n, pf_i, pf_stop, pf_divs>>
    /\ UNCHANGED <<main_n, fdVars, notPrime>>

----------------------------------------------------------------------------

\* The caller notes the outcome of the find_divisors call that just ended.
Main_NoteDivisors ==
    /\ fd_pc \in {"done", "ValueError"}
    /\ ~PF_Running
    /\ seen_kind' = "fd"
    /\ seen_n' = fd_n
    /\ seen_out' = fd_pc
    /\ seen_res' = divisors
    /\ UNCHANGED <<main_n, fdVars, pfVars, factVars, fibVars, sortVars,
                   palVars, revVars, pvVars>>

\* The caller notes the outcome of the find_prime_factors call that just
\* ended.
Main_NotePrimeFactors ==
    /\ pf_pc \in {"done", "ValueError"}
    /\ ~FD_Running
    /\ seen_kind' = "pf"
    /\ seen_n' = main_n
    /\ seen_out' = pf_pc
    /\ seen_res' = prime_factors
    /\ UNCHANGED <<main_n, fdVars, pfVars, factVars, fibVars, sortVars,
                   palVars, revVars, pvVars>>

----------------------------------------------------------------------------
(* factorial.py: fact_loop, fact_rec, fact_tail and factorial_safe.  The   *)
(* caller assigns n and calls the functions on it, one at a time, in any   *)
(* order.  A recursive function is a stack of frames: frame k of a call    *)
(* with argument n holds n - (k - 1), so the stack is kept as the n of its *)
(* innermost frame and its depth.                                          *)

FactInputs == (0 - MaxNeg)..MaxFactN

FactBusy ==
    \/ fl_pc = "for"
    \/ fr_pc \in {"test", "return"}
    \/ ft_pc \in {"test", "return"}
    \/ fs_pc = "for"

\* Guard that also rejects 0.
FS_Invalid_NonPositive(n) == n <= 0

\* if n < 0: raise ValueError
FS_Invalid(n) == n < 0

\* if n == 0 or n == 1 (fact_rec and fact_tail)
Fact_BaseCase(n) == n = 0 \/ n = 1

\* Recursive case that adds instead of multiplying.
FR_Combine_Sum(n, r) == n + r

\* n * fact_rec(n - 1)
FR_Combine(n, r) == n * r

\* result *= i (fact_loop and factorial_safe)
Fact_LoopBody(result, i) == result * i

\* The caller assigns its n; what earlier calls returned is dropped.
Fact_Assign(n) ==
    /\ ~FactBusy
    /\ fact_n' = n
    /\ fl_pc' = "idle" /\ fl_i' = 1 /\ fl_result' = 0
    /\ fr_pc' = "idle" /\ fr_n' = 0 /\ fr_depth' = 0 /\ fr_ret' = 0
    /\ ft_pc' = "idle" /\ ft_n' = 0 /\ ft_acc' = 1 /\ ft_depth' = 0
    /\ ft_ret' = 0
    /\ fs_pc' = "idle" /\ fs_i' = 1 /\ fs_result' = 0
    /\ UNCHANGED notFact

\* fact_loop(n) is called: result = 1.
FL_Call ==
    /\ ~FactBusy
    /\ fl_result' = 1
    /\ fl_i' = 1
    /\ fl_pc' = "for"
    /\ UNCHANGED <<fact_n, frVars, ftVars, fsVars, notFact>>

\* One iteration of "for i in range(1, n + 1)".
FL_Iter ==
    /\ fl_pc = "for"
    /\ fl_i < fact_n + 1
    /\ fl_result' = Fact_LoopBody(fl_result, fl_i)
    /\ fl_i' = fl_i + 1
    /\ UNCHANGED <<fl_pc, fact_n, frVars, ftVars, fsVars, notFact>>

\* return result
FL_Return ==
    /\ fl_pc = "for"
    /\ fl_i >= fact_n + 1
    /\ fl_pc' = "done"
    /\ UNCHANGED <<fl_i, fl_result, fact_n, frVars, ftVars, fsVars, notFact>>

\* fact_rec(n) is called: the first frame.
FR_Call ==
    /\ ~FactBusy
    /\ fr_n' = fact_n
    /\ fr_depth' = 1
    /\ fr_ret' = 0
    /\ fr_pc' = "test"
    /\ UNCHANGED <<fact_n, flVars, ftVars, fsVars, notFact>>

\* Base case: return 1.
FR_Base ==
    /\ fr_pc = "test"
    /\ Fact_BaseCase(fr_n)
    /\ fr_ret' = 1
    /\ fr_pc' = "return"
    /\ UNCHANGED <<fr_n, fr_depth, fact_n, flVars, ftVars, fsVars, notFact>>

\* Recursive case: the call fact_rec(n - 1) opens a frame.
FR_Recurse ==
    /\ fr_pc = "test"
    /\ ~Fact_BaseCase(fr_n)
    /\ fr_depth < RecursionLimit
    /\ fr_n' = fr_n - 1
    /\ fr_depth' = fr_depth + 1
    /\ UNCHANGED <<fr_pc, fr_ret, fact_n, flVars, ftVars, fsVars, notFact>>

\* Recursive case at the recursion limit: RecursionError unwinds the stack.
FR_Overflow ==
    /\ fr_pc = "test"
    /\ ~Fact_BaseCase(fr_n)
    /\ fr_depth >= RecursionLimit
    /\ fr_depth' = 0
    /\ fr_pc' = "RecursionError"
    /\ UNCHANGED <<fr_n, fr_ret, fact_n, flVars, ftVars, fsVars, notFact>>

\* A frame returns to its caller, which computes n * (the returned value);
\* the outermost frame returns to the caller of fact_rec.
FR_Return ==
    /\ fr_pc = "return"
    /\ IF fr_depth = 1
       THEN /\ fr_pc' = "done"
            /\ fr_depth' = 0
            /\ UNCHANGED <<fr_n, fr_ret>>
       ELSE /\ fr_depth' = fr_depth - 1
            /\ fr_n' = fr_n + 1
            /\ fr_ret' = FR_Combine(fr_n + 1, fr_ret)
            /\ UNCHANGED fr_pc
    /\ UNCHANGED <<fact_n, flVars, ftVars, fsVars, notFact>>

\* fact_tail(n) is called with the default accumulator 1.
FT_Call ==
    /\ ~FactBusy
    /\ ft_n' = fact_n
    /\ ft_acc' = 1
    /\ ft_depth' = 1
    /\ ft_ret' = 0
    /\ ft_pc' = "test"
    /\ UNCHANGED <<fact_n, flVars, frVars, fsVars, notFact>>

\* Base case: return accumulator.
FT_Base ==
    /\ ft_pc = "test"
    /\ Fact_BaseCase(ft_n)
    /\ ft_ret' = ft_acc
    /\ ft_pc' = "return"
    /\ UNCHANGED <<ft_n, ft_acc, ft_depth, fact_n, flVars, frVars, fsVars,
                   notFact>>

\* The call fact_tail(n - 1, n * accumulator) opens a frame.
FT_Recurse ==
    /\ ft_pc = "test"
    /\ ~Fact_BaseCase(ft_n)
    /\ ft_depth < RecursionLimit
    /\ ft_n' = ft_n - 1
    /\ ft_acc' = ft_n * ft_acc
    /\ ft_depth' = ft_depth + 1
    /\ UNCHANGED <<ft_pc, ft_ret, fact_n, flVars, frVars, fsVars, notFact>>

\* The call at the recursion limit: RecursionError unwinds the stack.
FT_Overflow ==
    /\ ft_pc = "test"
    /\ ~Fact_BaseCase(ft_n)
    /\ ft_depth >= RecursionLimit
    /\ ft_depth' = 0
    /\ ft_pc' = "RecursionError"
    /\ UNCHANGED <<ft_n, ft_acc, ft_ret, fact_n, flVars, frVars, fsVars,
                   notFact>>

\* A frame passes the value it received on to its caller.
FT_Return ==
    /\ ft_pc = "return"
    /\ ft_depth' = ft_depth - 1
    /\ ft_pc' = IF ft_depth = 1 THEN "done" ELSE "return"
    /\ UNCHANGED <<ft_n, ft_acc, ft_ret, fact_n, flVars, frVars, fsVars,
                   notFact>>

\* factorial_safe(n) is called: the guard, then result = 1.
FS_Call ==
    /\ ~FactBusy
    /\ fs_i' = 1
    /\ IF FS_Invalid(fact_n)
       THEN fs_pc' = "ValueError" /\ fs_result' = 0
       ELSE fs_pc' = "for" /\ fs_result' = 1
    /\ UNCHANGED <<fact_n, flVars, frVars, ftVars, notFact>>

\* One iteration of "for i in range(1, n + 1)".
FS_Iter ==
    /\ fs_pc = "for"
    /\ fs_i < fact_n + 1
    /\ fs_result' = Fact_LoopBody(fs_result, fs_i)
    /\ fs_i' = fs_i + 1
    /\ UNCHANGED <<fs_pc, fact_n, flVars, frVars, ftVars, notFact>>

\* return result
FS_Return ==
    /\ fs_pc = "for"
    /\ fs_i >= fact_n + 1
    /\ fs_pc' = "done"
    /\ UNCHANGED <<fs_i, fs_result, fact_n, flVars, frVars, ftVars, notFact>>

\* No call of factorial.py has been made.
FactIdle ==
    /\ fl_pc = "idle" /\ fl_i = 1 /\ fl_result = 0
    /\ fr_pc = "idle" /\ fr_n = 0 /\ fr_depth = 0 /\ fr_ret = 0
    /\ ft_pc = "idle" /\ ft_n = 0 /\ ft_acc = 1 /\ ft_depth = 0 /\ ft_ret = 0
    /\ fs_pc = "idle" /\ fs_i = 1 /\ fs_result = 0

----------------------------------------------------------------------------
(* fibonacci.py: fib_loop_nth, fib_rec, fib_memo and fib_dp.  The caller   *)
(* assigns n and calls the functions on it, one at a time, in any order.   *)
(* A frame of a recursive function records its n, where it is ("entry",    *)
(* "first": waiting for the call on n - 1, "second": waiting for the call  *)
(* on n - 2) and the value the first call returned.                        *)

FibInputs == (0 - MaxNeg)..MaxFibN

FibBusy ==
    \/ fln_pc = "for"
    \/ fbr_pc \in {"call", "return"}
    \/ fbm_pc \in {"call", "return"}
    \/ fdp_pc = "for"

Frame(n) == [n |-> n, at |-> "entry", first |-> 0]
Top(stack) == stack[Len(stack)]
Pop(stack) == SubSeq(stack, 1, Len(stack) - 1)
\* The stack once its innermost frame has called on arg, having recorded
\* where it waits and what its first call returned.
PushCall(stack, at, first, arg) ==
    Append([stack EXCEPT ![Len(stack)] =
                [n |-> Top(stack).n, at |-> at, first |-> first]],
           Frame(arg))

\* a, b = b, a + b
FLN_Step(a, b) == <<b, a + b>>

\* Recursive case that recurses on n - 1 twice.
Fib_SecondArg_Same(n) == n - 1

\* The argument n - 2 of the second recursive call.
Fib_SecondArg(n) == n - 2

\* The dictionary d with d[k] = v.
DictSet(d, k, v) ==
    [x \in DOMAIN d \cup {k} |-> IF x = k THEN v ELSE d[x]]

\* The list dp with dp[k] = v (dp[k] is element k + 1 of the sequence).
ListSet(dp, k, v) == [dp EXCEPT ![k + 1] = v]

\* The caller assigns its n; what earlier calls returned is dropped.
Fib_Assign(n) ==
    /\ ~FibBusy
    /\ fib_n' = n
    /\ fln_pc' = "idle" /\ fln_a' = 0 /\ fln_b' = 1 /\ fln_i' = 0
    /\ fbr_pc' = "idle" /\ fbr_stack' = <<>> /\ fbr_ret' = 0
    /\ fbm_pc' = "idle" /\ fbm_stack' = <<>> /\ fbm_memo' = <<>>
    /\ fbm_ret' = 0
    /\ fdp_pc' = "idle" /\ fdp_dp' = <<>> /\ fdp_i' = 2 /\ fdp_ret' = 0
    /\ UNCHANGED notFib

\* fib_loop_nth(n) is called: a, b = 0, 1.
FLN_Call ==
    /\ ~FibBusy
    /\ fln_a' = 0 /\ fln_b' = 1 /\ fln_i' = 0
    /\ fln_pc' = "for"
    /\ UNCHANGED <<fib_n, fbrVars, fbmVars, fdpVars, notFib>>

\* One iteration of "for i in range(n)".
FLN_Iter ==
    /\ fln_pc = "for"
    /\ fln_i < fib_n
    /\ fln_a' = FLN_Step(fln_a, fln_b)[1]
    /\ fln_b' = FLN_Step(fln_a, fln_b)[2]
    /\ fln_i' = fln_i + 1
    /\ UNCHANGED <<fln_pc, fib_n, fbrVars, fbmVars, fdpVars, notFib>>

\* return a
FLN_Return ==
    /\ fln_pc = "for"
    /\ fln_i >= fib_n
    /\ fln_pc' = "done"
    /\ UNCHANGED <<fln_a, fln_b, fln_i, fib_n, fbrVars, fbmVars, fdpVars,
                   notFib>>

\* fib_rec(n) is called: the first frame.
FBR_Call ==
    /\ ~FibBusy
    /\ fbr_stack' = <<Frame(fib_n)>>
    /\ fbr_ret' = 0
    /\ fbr_pc' = "call"
    /\ UNCHANGED <<fib_n, flnVars, fbmVars, fdpVars, notFib>>

\* Base cases: return 0 for n == 0, return 1 for n == 1.
FBR_Base ==
    /\ fbr_pc = "call"
    /\ Top(fbr_stack).n \in {0, 1}
    /\ fbr_ret' = Top(fbr_stack).n
    /\ fbr_stack' = Pop(fbr_stack)
    /\ fbr_pc' = IF Len(fbr_stack) = 1 THEN "done" ELSE "return"
    /\ UNCHANGED <<fib_n, flnVars, fbmVars, fdpVars, notFib>>

\* Recursive case: the call fib_rec(n - 1) opens a frame.
FBR_First ==
    /\ fbr_pc = "call"
    /\ Top(fbr_stack).n \notin {0, 1}
    /\ Len(fbr_stack) < RecursionLimit
    /\ fbr_stack' = PushCall(fbr_stack, "first", 0, Top(fbr_stack).n - 1)
    /\ UNCHANGED <<fbr_pc, fbr_ret, fib_n, flnVars, fbmVars, fdpVars, notFib>>

\* The call at the recursion limit: RecursionError unwinds the stack.
FBR_Overflow ==
    /\ fbr_pc = "call"
    /\ Top(fbr_stack).n \notin {0, 1}
    /\ Len(fbr_stack) >= RecursionLimit
    /\ fbr_stack' = <<>>
    /\ fbr_pc' = "RecursionError"
    /\ UNCHANGED <<fbr_ret, fib_n, flnVars, fbmVars, fdpVars, notFib>>

\* fib_rec(n - 1) has returned: the call fib_rec(n - 2) opens a frame (at
\* the depth the first call had, so within the limit).
FBR_Second ==
    /\ fbr_pc = "return"
    /\ Top(fbr_stack).at = "first"
    /\ fbr_stack' = PushCall(fbr_stack, "second", fbr_ret,
                             Fib_SecondArg(Top(fbr_stack).n))
    /\ fbr_pc' = "call"
    /\ UNCHANGED <<fbr_ret, fib_n, flnVars, fbmVars, fdpVars, notFib>>

\* fib_rec(n - 2) has returned: return the sum.
FBR_Sum ==
    /\ fbr_pc = "return"
    /\ Top(fbr_stack).at = "second"
    /\ fbr_ret' = Top(fbr_stack).first + fbr_ret
    /\ fbr_stack' = Pop(fbr_stack)
    /\ fbr_pc' = IF Len(fbr_stack) = 1 THEN "done" ELSE "return"
    /\ UNCHANGED <<fib_n, flnVars, fbmVars, fdpVars, notFib>>

\* fib_memo(n) is called with memo=None: memo = {}.
FBM_Call ==
    /\ ~FibBusy
    /\ fbm_stack' = <<Frame(fib_n)>>
    /\ fbm_memo' = <<>>
    /\ fbm_ret' = 0
    /\ fbm_pc' = "call"
    /\ UNCHANGED <<fib_n, flnVars, fbrVars, fdpVars, notFib>>

\* if n in memo: return memo[n]
FBM_Hit ==
    /\ fbm_pc = "call"
    /\ Top(fbm_stack).n \in DOMAIN fbm_memo
    /\ fbm_ret' = fbm_memo[Top(fbm_stack).n]
    /\ fbm_stack' = Pop(fbm_stack)
    /\ fbm_pc' = IF Len(fbm_stack) = 1 THEN "done" ELSE "return"
    /\ UNCHANGED <<fbm_memo, fib_n, flnVars, fbrVars, fdpVars, notFib>>

\* Base cases: return 0 for n == 0, return 1 for n == 1.
FBM_Base ==
    /\ fbm_pc = "call"
    /\ Top(fbm_stack).n \notin DOMAIN fbm_memo
    /\ Top(fbm_stack).n \in {0, 1}
    /\ fbm_ret' = Top(fbm_stack).n
    /\ fbm_stack' = Pop(fbm_stack)
    /\ fbm_pc' = IF Len(fbm_stack) = 1 THEN "done" ELSE "return"
    /\ UNCHANGED <<fbm_memo, fib_n, flnVars, fbrVars, fdpVars, notFib>>

\* The call fib_memo(n - 1, memo) opens a frame.
FBM_First ==
    /\ fbm_pc = "call"
    /\ Top(fbm_stack).n \notin DOMAIN fbm_memo
    /\ Top(fbm_stack).n \notin {0, 1}
    /\ Len(fbm_stack) < RecursionLimit
    /\ fbm_stack' = PushCall(fbm_stack, "first", 0, Top(fbm_stack).n - 1)
    /\ UNCHANGED <<fbm_pc, fbm_memo, fbm_ret, fib_n, flnVars, fbrVars,
                   fdpVars, notFib>>

\* The call at the recursion limit: RecursionError unwinds the stack.
FBM_Overflow ==
    /\ fbm_pc = "call"
    /\ Top(fbm_stack).n \notin DOMAIN fbm_memo
    /\ Top(fbm_stack).n \notin {0, 1}
    /\ Len(fbm_stack) >= RecursionLimit
    /\ fbm_stack' = <<>>
    /\ fbm_pc' = "RecursionError"
    /\ UNCHANGED <<fbm_memo, fbm_ret, fib_n, flnVars, fbrVars, fdpVars,
                   notFib>>

\* fib_memo(n - 1, memo) has returned: the call fib_memo(n - 2, memo).
FBM_Second ==
    /\ fbm_pc = "return"
    /\ Top(fbm_stack).at = "first"
    /\ fbm_stack' = PushCall(fbm_stack, "second", fbm_ret,
                             Fib_SecondArg(Top(fbm_stack).n))
    /\ fbm_pc' = "call"
    /\ UNCHANGED <<fbm_memo, fbm_ret, fib_n, flnVars, fbrVars, fdpVars,
                   notFib>>

\* memo[n] = (first) + (second); return memo[n]
FBM_Store ==
    /\ fbm_pc = "return"
    /\ Top(fbm_stack).at = "second"
    /\ fbm_memo' = DictSet(fbm_memo, Top(fbm_stack).n,
                           Top(fbm_stack).first + fbm_ret)
    /\ fbm_ret' = fbm_memo'[Top(fbm_stack).n]
    /\ fbm_stack' = Pop(fbm_stack)
    /\ fbm_pc' = IF Len(fbm_stack) = 1 THEN "done" ELSE "return"
    /\ UNCHANGED <<fib_n, flnVars, fbrVars, fdpVars, notFib>>

\* fib_dp(n) is called.  n == 0 and n == 1 return at once; for n < 0 the
\* list [0] * (n + 1) is empty and dp[0] = 0 raises IndexError; otherwise
\* dp = [0] * (n + 1); dp[0] = 0; dp[1] = 1.
FDP_Call ==
    /\ ~FibBusy
    /\ fdp_i' = 2
    /\ IF fib_n \in {0, 1}
       THEN fdp_pc' = "done" /\ fdp_ret' = fib_n /\ fdp_dp' = <<>>
       ELSE IF fib_n < 0
       THEN fdp_pc' = "IndexError" /\ fdp_ret' = 0 /\ fdp_dp' = <<>>
       ELSE /\ fdp_pc' = "for"
            /\ fdp_ret' = 0
            /\ fdp_dp' = ListSet(ListSet([k \in 1..(fib_n + 1) |-> 0], 0, 0),
                                 1, 1)
    /\ UNCHANGED <<fib_n, flnVars, fbrVars, fbmVars, notFib>>

\* One iteration of "for i in range(2, n + 1)": dp[i] = dp[i-1] + dp[i-2].
FDP_Iter ==
    /\ fdp_pc = "for"
    /\ fdp_i < fib_n + 1
    /\ fdp_dp' = ListSet(fdp_dp, fdp_i,
                         fdp_dp[fdp_i - 1 + 1] + fdp_dp[fdp_i - 2 + 1])
    /\ fdp_i' = fdp_i + 1
    /\ UNCHANGED <<fdp_pc, fdp_ret, fib_n, flnVars, fbrVars, fbmVars, notFib>>

\* return dp[n]
FDP_Return ==
    /\ fdp_pc = "for"
    /\ fdp_i >= fib_n + 1
    /\ fdp_ret' = fdp_dp[fib_n + 1]
    /\ fdp_pc' = "done"
    /\ UNCHANGED <<fdp_dp, fdp_i, fib_n, flnVars, fbrVars, fbmVars, notFib>>

\* No call of fibonacci.py has been made.
FibIdle ==
    /\ fln_pc = "idle" /\ fln_a = 0 /\ fln_b = 1 /\ fln_i = 0
    /\ fbr_pc = "idle" /\ fbr_stack = <<>> /\ fbr_ret = 0
    /\ fbm_pc = "idle" /\ fbm_stack = <<>> /\ fbm_memo = <<>> /\ fbm_ret = 0
    /\ fdp_pc = "idle" /\ fdp_dp = <<>> /\ fdp_i = 2 /\ fdp_ret = 0

----------------------------------------------------------------------------
(* sorting/: bubble_sort (bubble-sort.py), the insertion sort that         *)
(* instertion-sort.py also names bubble_sort, and selection_sort.  The     *)
(* caller holds my_arr and passes my_arr.copy() to each call.  Indices are *)
(* those of the code (from 0); element k of a list is At(list, k).         *)

SortInputs ==
    UNION {[1..len -> 1..MaxSortVal] : len \in 0..MaxSortLen}

SortBusy ==
    \/ bs_pc \in {"outer", "inner"}
    \/ is_pc \in {"for", "while"}
    \/ ss_pc \in {"outer", "inner"}

\* arr[k]
At(arr, k) == arr[k + 1]

\* arr[k] = v
ListPut(arr, k, v) == [arr EXCEPT ![k + 1] = v]

\* arr[x], arr[y] = arr[y], arr[x]
ListSwap(arr, x, y) == ListPut(ListPut(arr, x, At(arr, y)), y, At(arr, x))

\* Comparison that sorts descending.
BS_OutOfOrder_Reversed(a, b) == a < b

\* if arr[j] > arr[j+1] (bubble sort)
BS_OutOfOrder(a, b) == a > b

\* key < arr[j] (insertion sort)
IS_KeyBelow(key, x) == key < x

\* Comparison that selects the maximum.
SS_Smaller_Reversed(a, b) == a > b

\* if arr[j] < arr[min_idx] (selection sort)
SS_Smaller(a, b) == a < b

\* The caller assigns my_arr; what earlier calls returned is dropped.
Sort_Assign(a) ==
    /\ ~SortBusy
    /\ my_arr' = a
    /\ bs_pc' = "idle" /\ bs_arr' = <<>> /\ bs_i' = 0 /\ bs_j' = 0
    /\ bs_ret' = "none"
    /\ is_pc' = "idle" /\ is_arr' = <<>> /\ is_i' = 1 /\ is_j' = 0
    /\ is_key' = 0 /\ is_ret' = "none"
    /\ ss_pc' = "idle" /\ ss_arr' = <<>> /\ ss_i' = 0 /\ ss_j' = 0
    /\ ss_min_idx' = 0 /\ ss_ret' = "none" /\ ss_swaps' = 0
    /\ UNCHANGED notSort

\* bubble_sort(my_arr.copy()) is called: n = len(arr).
BS_Call ==
    /\ ~SortBusy
    /\ bs_arr' = my_arr
    /\ bs_i' = 0 /\ bs_j' = 0
    /\ bs_ret' = "none"
    /\ bs_pc' = "outer"
    /\ UNCHANGED <<my_arr, isVars, ssVars, notSort>>

\* "for i in range(n-1)" has a next i: the inner loop starts.
BS_OuterNext ==
    /\ bs_pc = "outer"
    /\ bs_i < Len(bs_arr) - 1
    /\ bs_j' = 0
    /\ bs_pc' = "inner"
    /\ UNCHANGED <<bs_arr, bs_i, bs_ret, my_arr, isVars, ssVars, notSort>>

\* One iteration of "for j in range(n-i-1)": compare and swap.
BS_Inner ==
    /\ bs_pc = "inner"
    /\ bs_j < Len(bs_arr) - bs_i - 1
    /\ bs_arr' = IF BS_OutOfOrder(At(bs_arr, bs_j), At(bs_arr, bs_j + 1))
                 THEN ListSwap(bs_arr, bs_j, bs_j + 1)
                 ELSE bs_arr
    /\ bs_j' = bs_j + 1
    /\ UNCHANGED <<bs_pc, bs_i, bs_ret, my_arr, isVars, ssVars, notSort>>

\* The inner range is exhausted: next i.
BS_InnerExit ==
    /\ bs_pc = "inner"
    /\ bs_j >= Len(bs_arr) - bs_i - 1
    /\ bs_i' = bs_i + 1
    /\ bs_pc' = "outer"
    /\ UNCHANGED <<bs_arr, bs_j, bs_ret, my_arr, isVars, ssVars, notSort>>

\* return arr
BS_Return ==
    /\ bs_pc = "outer"
    /\ bs_i >= Len(bs_arr) - 1
    /\ bs_ret' = "arr"
    /\ bs_pc' = "done"
    /\ UNCHANGED <<bs_arr, bs_i, bs_j, my_arr, isVars, ssVars, notSort>>

\* The insertion sort is called on my_arr.copy(): n = len(arr).
IS_Call ==
    /\ ~SortBusy
    /\ is_arr' = my_arr
    /\ is_i' = 1 /\ is_j' = 0 /\ is_key' = 0
    /\ is_ret' = "none"
    /\ is_pc' = "for"
    /\ UNCHANGED <<my_arr, bsVars, ssVars, notSort>>

\* "for i in range(1, n)" has a next i: j = i - 1; key = arr[i].
IS_ForNext ==
    /\ is_pc = "for"
    /\ is_i < Len(is_arr)
    /\ is_j' = is_i - 1
    /\ is_key' = At(is_arr, is_i)
    /\ is_pc' = "while"
    /\ UNCHANGED <<is_arr, is_i, is_ret, my_arr, bsVars, ssVars, notSort>>

\* while j >= 0 and key < arr[j]: arr[j+1] = arr[j]; j -= 1
IS_Shift ==
    /\ is_pc = "while"
    /\ is_j >= 0 /\ IS_KeyBelow(is_key, At(is_arr, is_j))
    /\ is_arr' = ListPut(is_arr, is_j + 1, At(is_arr, is_j))
    /\ is_j' = is_j - 1
    /\ UNCHANGED <<is_pc, is_i, is_key, is_ret, my_arr, bsVars, ssVars,
                   notSort>>

\* The while condition is false: arr[j+1] = key; next i.
IS_Place ==
    /\ is_pc = "while"
    /\ ~(is_j >= 0 /\ IS_KeyBelow(is_key, At(is_arr, is_j)))
    /\ is_arr' = ListPut(is_arr, is_j + 1, is_key)
    /\ is_i' = is_i + 1
    /\ is_pc' = "for"
    /\ UNCHANGED <<is_j, is_key, is_ret, my_arr, bsVars, ssVars, notSort>>

\* return arr
IS_Return ==
    /\ is_pc = "for"
    /\ is_i >= Len(is_arr)
    /\ is_ret' = "arr"
    /\ is_pc' = "done"
    /\ UNCHANGED <<is_arr, is_i, is_j, is_key, my_arr, bsVars, ssVars,
                   notSort>>

\* selection_sort(my_arr.copy()) is called: n = len(arr).
SS_Call ==
    /\ ~SortBusy
    /\ ss_arr' = my_arr
    /\ ss_i' = 0 /\ ss_j' = 0 /\ ss_min_idx' = 0
    /\ ss_ret' = "none"
    /\ ss_swaps' = 0
    /\ ss_pc' = "outer"
    /\ UNCHANGED <<my_arr, bsVars, isVars, notSort>>

\* "for i in range(n)" has a next i: min_idx = i; the scan starts at i + 1.
SS_OuterNext ==
    /\ ss_pc = "outer"
    /\ ss_i < Len(ss_arr)
    /\ ss_min_idx' = ss_i
    /\ ss_j' = ss_i + 1
    /\ ss_pc' = "inner"
    /\ UNCHANGED <<ss_arr, ss_i, ss_ret, ss_swaps, my_arr, bsVars, isVars,
                   notSort>>

\* One iteration of "for j in range(i + 1, n)".
SS_Scan ==
    /\ ss_pc = "inner"
    /\ ss_j < Len(ss_arr)
    /\ ss_min_idx' = IF SS_Smaller(At(ss_arr, ss_j), At(ss_arr, ss_min_idx))
                     THEN ss_j
                     ELSE ss_min_idx
    /\ ss_j' = ss_j + 1
    /\ UNCHANGED <<ss_pc, ss_arr, ss_i, ss_ret, ss_swaps, my_arr, bsVars,
                   isVars, notSort>>

\* The scan is over: arr[i], arr[min_idx] = arr[min_idx], arr[i]; next i.
SS_Swap ==
    /\ ss_pc = "inner"
    /\ ss_j >= Len(ss_arr)
    /\ ss_arr' = ListSwap(ss_arr, ss_i, ss_min_idx)
    /\ ss_swaps' = ss_swaps + 1
    /\ ss_i' = ss_i + 1
    /\ ss_pc' = "outer"
    /\ UNCHANGED <<ss_j, ss_min_idx, ss_ret, my_arr, bsVars, isVars, notSort>>

\* return arr
SS_Return ==
    /\ ss_pc = "outer"
    /\ ss_i >= Len(ss_arr)
    /\ ss_ret' = "arr"
    /\ ss_pc' = "done"
    /\ UNCHANGED <<ss_arr, ss_i, ss_j, ss_min_idx, ss_swaps, my_arr, bsVars,
                   isVars, notSort>>

\* No sorting function has been called.
SortIdle ==
    /\ bs_pc = "idle" /\ bs_arr = <<>> /\ bs_i = 0 /\ bs_j = 0
    /\ bs_ret = "none"
    /\ is_pc = "idle" /\ is_arr = <<>> /\ is_i = 1 /\ is_j = 0
    /\ is_key = 0 /\ is_ret = "none"
    /\ ss_pc = "idle" /\ ss_arr = <<>> /\ ss_i = 0 /\ ss_j = 0
    /\ ss_min_idx = 0 /\ ss_ret = "none" /\ ss_swaps = 0

----------------------------------------------------------------------------
(* recursion/palindrome.py.  A string is a sequence of characters; indices *)
(* are those of the code (from 0) and At(s, k) is s[k].                    *)

Alphabet == {"a", "b"}

\* A run of len "a" with a "b" at index p - 1 (no "b" when p = 0).
OneB(len, p) == [k \in 1..len |-> IF k = p THEN "b" ELSE "a"]

PalInputs ==
    UNION {[1..len -> Alphabet] : len \in 0..MaxStrLen}
    \cup {OneB(len, p) : len \in (MaxStrLen + 1)..MaxLongLen, p \in 0..MaxLongLen}

PalBusy ==
    \/ ipf_pc = "for"
    \/ ipw_pc = "while"
    \/ ipr_pc \in {"test", "return"}

\* Comparison that finds no two characters different.
Pal_Differ_Never(a, b) == FALSE

\* if my_str[i] != my_str[...]
Pal_Differ(a, b) == a # b

\* my_str[::-1]
SliceReversed(s) == [k \in 1..Len(s) |-> s[Len(s) + 1 - k]]

\* The caller's loop variable my_str takes its next value.
Pal_Assign(s) ==
    /\ ~PalBusy
    /\ my_str' = s
    /\ ipf_pc' = "idle" /\ ipf_i' = 0 /\ ipf_ret' = FALSE
    /\ ipw_pc' = "idle" /\ ipw_start' = 0 /\ ipw_end' = 0 /\ ipw_ret' = FALSE
    /\ ipr_pc' = "idle" /\ ipr_left' = 0 /\ ipr_right' = 0
    /\ ipr_depth' = 0 /\ ipr_ret' = FALSE
    /\ ipp_pc' = "idle" /\ ipp_ret' = FALSE
    /\ UNCHANGED notPal

\* is_palindrome_for_loop(my_str) is called.
IPF_Call ==
    /\ ~PalBusy
    /\ ipf_i' = 0
    /\ ipf_ret' = FALSE
    /\ ipf_pc' = "for"
    /\ UNCHANGED <<my_str, ipwVars, iprVars, ippVars, notPal>>

\* One iteration of "for i in range(len(my_str) // 2)".
IPF_Iter ==
    /\ ipf_pc = "for"
    /\ ipf_i < Len(my_str) \div 2
    /\ IF Pal_Differ(At(my_str, ipf_i), At(my_str, Len(my_str) - ipf_i - 1))
       THEN /\ ipf_ret' = FALSE
            /\ ipf_pc' = "done"
            /\ UNCHANGED ipf_i
       ELSE /\ ipf_i' = ipf_i + 1
            /\ UNCHANGED <<ipf_pc, ipf_ret>>
    /\ UNCHANGED <<my_str, ipwVars, iprVars, ippVars, notPal>>

\* The range is exhausted: return True.
IPF_Return ==
    /\ ipf_pc = "for"
    /\ ipf_i >= Len(my_str) \div 2
    /\ ipf_ret' = TRUE
    /\ ipf_pc' = "done"
    /\ UNCHANGED <<ipf_i, my_str, ipwVars, iprVars, ippVars, notPal>>

\* is_palindrome_while_loop(my_str) is called: start = 0; end = len - 1.
IPW_Call ==
    /\ ~PalBusy
    /\ ipw_start' = 0
    /\ ipw_end' = Len(my_str) - 1
    /\ ipw_ret' = FALSE
    /\ ipw_pc' = "while"
    /\ UNCHANGED <<my_str, ipfVars, iprVars, ippVars, notPal>>

\* One iteration of "while start < end".
IPW_Iter ==
    /\ ipw_pc = "while"
    /\ ipw_start < ipw_end
    /\ IF Pal_Differ(At(my_str, ipw_start), At(my_str, ipw_end))
       THEN /\ ipw_ret' = FALSE
            /\ ipw_pc' = "done"
            /\ UNCHANGED <<ipw_start, ipw_end>>
       ELSE /\ ipw_start' = ipw_start + 1
            /\ ipw_end' = ipw_end - 1
            /\ UNCHANGED <<ipw_pc, ipw_ret>>
    /\ UNCHANGED <<my_str, ipfVars, iprVars, ippVars, notPal>>

\* The pointers met: return True.
IPW_Return ==
    /\ ipw_pc = "while"
    /\ ~(ipw_start < ipw_end)
    /\ ipw_ret' = TRUE
    /\ ipw_pc' = "done"
    /\ UNCHANGED <<ipw_start, ipw_end, my_str, ipfVars, iprVars, ippVars,
                   notPal>>

\* is_palindrome_rec(my_str, 0, len(my_str) - 1) is called.
IPR_Call ==
    /\ ~PalBusy
    /\ ipr_left' = 0
    /\ ipr_right' = Len(my_str) - 1
    /\ ipr_depth' = 1
    /\ ipr_ret' = FALSE
    /\ ipr_pc' = "test"
    /\ UNCHANGED <<my_str, ipfVars, ipwVars, ippVars, notPal>>

\* if left >= right: return True
IPR_Base ==
    /\ ipr_pc = "test"
    /\ ipr_left >= ipr_right
    /\ ipr_ret' = TRUE
    /\ ipr_pc' = "return"
    /\ UNCHANGED <<ipr_left, ipr_right, ipr_depth, my_str, ipfVars, ipwVars,
                   ippVars, notPal>>

\* if my_str[left] != my_str[right]: return False
IPR_Mismatch ==
    /\ ipr_pc = "test"
    /\ ipr_left < ipr_right
    /\ Pal_Differ(At(my_str, ipr_left), At(my_str, ipr_right))
    /\ ipr_ret' = FALSE
    /\ ipr_pc' = "return"
    /\ UNCHANGED <<ipr_left, ipr_right, ipr_depth, my_str, ipfVars, ipwVars,
                   ippVars, notPal>>

\* The call is_palindrome_rec(my_str, left + 1, right - 1) opens a frame.
IPR_Recurse ==
    /\ ipr_pc = "test"
    /\ ipr_left < ipr_right
    /\ ~Pal_Differ(At(my_str, ipr_left), At(my_str, ipr_right))
    /\ ipr_depth < RecursionLimit
    /\ ipr_left' = ipr_left + 1
    /\ ipr_right' = ipr_right - 1
    /\ ipr_depth' = ipr_depth + 1
    /\ UNCHANGED <<ipr_pc, ipr_ret, my_str, ipfVars, ipwVars, ippVars, notPal>>

\* The same call at the recursion limit: RecursionError unwinds the stack.
IPR_Overflow ==
    /\ ipr_pc = "test"
    /\ ipr_left < ipr_right
    /\ ~Pal_Differ(At(my_str, ipr_left), At(my_str, ipr_right))
    /\ ipr_depth >= RecursionLimit
    /\ ipr_depth' = 0
    /\ ipr_pc' = "RecursionError"
    /\ UNCHANGED <<ipr_left, ipr_right, ipr_ret, my_str, ipfVars, ipwVars,
                   ippVars, notPal>>

\* A frame returns what its callee returned; the outermost frame returns
\* to the caller of is_palindrome_rec.
IPR_Return ==
    /\ ipr_pc = "return"
    /\ IF ipr_depth = 1
       THEN /\ ipr_pc' = "done"
            /\ ipr_depth' = 0
            /\ UNCHANGED <<ipr_left, ipr_right>>
       ELSE /\ ipr_depth' = ipr_depth - 1
            /\ ipr_left' = ipr_left - 1
            /\ ipr_right' = ipr_right + 1
            /\ UNCHANGED ipr_pc
    /\ UNCHANGED <<ipr_ret, my_str, ipfVars, ipwVars, ippVars, notPal>>

\* is_palindrome_pythonic(my_str): return my_str == my_str[::-1]
IPP_Call ==
    /\ ~PalBusy
    /\ ipp_ret' = (my_str = SliceReversed(my_str))
    /\ ipp_pc' = "done"
    /\ UNCHANGED <<my_str, ipfVars, ipwVars, iprVars, notPal>>

\* No function of palindrome.py has been called.
PalIdle ==
    /\ ipf_pc = "idle" /\ ipf_i = 0 /\ ipf_ret = FALSE
    /\ ipw_pc = "idle" /\ ipw_start = 0 /\ ipw_end = 0 /\ ipw_ret = FALSE
    /\ ipr_pc = "idle" /\ ipr_left = 0 /\ ipr_right = 0
    /\ ipr_depth = 0 /\ ipr_ret = FALSE
    /\ ipp_pc = "idle" /\ ipp_ret = FALSE

----------------------------------------------------------------------------
(* recursion/reverse_array.py.  The caller holds the list original and     *)
(* passes a fresh copy (arr1 .. arr5) to each function.  A returned value  *)
(* is the object it refers to: "arr" is the list that was passed, "new" a  *)
(* list object created by the call, "None" the None object.                *)

RevInputs ==
    UNION {[1..len -> 1..MaxSortVal] : len \in 0..MaxSortLen}
    \cup {[k \in 1..len |-> k] : len \in (MaxSortLen + 1)..MaxLongLen}

RevBusy ==
    \/ raf_pc = "for"
    \/ raw_pc = "while"
    \/ rar_pc \in {"test", "return"}

\* Loop bound that runs over the whole list.
RAF_Stop_Full(n) == n

\* range(n // 2)
RAF_Stop(n) == n \div 2

\* list.reverse(): the elements of the list in reverse order.
ListReverse(a) == [k \in 1..Len(a) |-> a[Len(a) + 1 - k]]

\* return arr.reverse(): the list after the call and the returned object.
RAP_Result(arr) == [arr |-> ListReverse(arr), ret |-> "None"]

\* A slicing that reverses its argument in place and returns it.
RAS_Result_InPlace(arr) ==
    [arr |-> SliceReversed(arr), new |-> <<>>, ret |-> "arr"]

\* return arr[::-1]: the argument after the call, the list object the
\* slice creates, and the returned object.
RAS_Result(arr) == [arr |-> arr, new |-> SliceReversed(arr), ret |-> "new"]

\* The caller assigns original; what earlier calls returned is dropped.
Rev_Assign(a) ==
    /\ ~RevBusy
    /\ original' = a
    /\ raf_pc' = "idle" /\ raf_arr' = <<>> /\ raf_i' = 0 /\ raf_ret' = "none"
    /\ raw_pc' = "idle" /\ raw_arr' = <<>> /\ raw_start' = 0 /\ raw_end' = 0
    /\ raw_ret' = "none"
    /\ rap_pc' = "idle" /\ rap_arr' = <<>> /\ rap_ret' = "none"
    /\ ras_pc' = "idle" /\ ras_arr' = <<>> /\ ras_new' = <<>>
    /\ ras_ret' = "none"
    /\ rar_pc' = "idle" /\ rar_arr' = <<>> /\ rar_left' = 0 /\ rar_right' = 0
    /\ rar_depth' = 0 /\ rar_ret' = "none"
    /\ UNCHANGED notRev

\* arr1 = original.copy(); rev_arr_for_loop(arr1): n = len(arr).
RAF_Call ==
    /\ ~RevBusy
    /\ raf_arr' = original
    /\ raf_i' = 0
    /\ raf_ret' = "none"
    /\ raf_pc' = "for"
    /\ UNCHANGED <<original, rawVars, rapVars, rasVars, rarVars, notRev>>

\* One iteration of "for i in range(n // 2)": swap arr[i], arr[n-i-1].
RAF_Iter ==
    /\ raf_pc = "for"
    /\ raf_i < RAF_Stop(Len(raf_arr))
    /\ raf_arr' = ListSwap(raf_arr, raf_i, Len(raf_arr) - raf_i - 1)
    /\ raf_i' = raf_i + 1
    /\ UNCHANGED <<raf_pc, raf_ret, original, rawVars, rapVars, rasVars,
                   rarVars, notRev>>

\* return arr
RAF_Return ==
    /\ raf_pc = "for"
    /\ raf_i >= RAF_Stop(Len(raf_arr))
    /\ raf_ret' = "arr"
    /\ raf_pc' = "done"
    /\ UNCHANGED <<raf_arr, raf_i, original, rawVars, rapVars, rasVars,
                   rarVars, notRev>>

\* arr2 = original.copy(); rev_arr_while_loop(arr2).
RAW_Call ==
    /\ ~RevBusy
    /\ raw_arr' = original
    /\ raw_start' = 0
    /\ raw_end' = Len(original) - 1
    /\ raw_ret' = "none"
    /\ raw_pc' = "while"
    /\ UNCHANGED <<original, rafVars, rapVars, rasVars, rarVars, notRev>>

\* One iteration of "while start < end".
RAW_Iter ==
    /\ raw_pc = "while"
    /\ raw_start < raw_end
    /\ raw_arr' = ListSwap(raw_arr, raw_start, raw_end)
    /\ raw_start' = raw_start + 1
    /\ raw_end' = raw_end - 1
    /\ UNCHANGED <<raw_pc, raw_ret, original, rafVars, rapVars, rasVars,
                   rarVars, notRev>>

\* return arr
RAW_Return ==
    /\ raw_pc = "while"
    /\ ~(raw_start < raw_end)
    /\ raw_ret' = "arr"
    /\ raw_pc' = "done"
    /\ UNCHANGED <<raw_arr, raw_start, raw_end, original, rafVars, rapVars,
                   rasVars, rarVars, notRev>>

\* arr3 = original.copy(); rev_arr_pythonic(arr3).
RAP_Call ==
    /\ ~RevBusy
    /\ rap_arr' = RAP_Result(original).arr
    /\ rap_ret' = RAP_Result(original).ret
    /\ rap_pc' = "done"
    /\ UNCHANGED <<original, rafVars, rawVars, rasVars, rarVars, notRev>>

\* arr4 = original.copy(); rev_arr_slicing(arr4).
RAS_Call ==
    /\ ~RevBusy
    /\ ras_arr' = RAS_Result(original).arr
    /\ ras_new' = RAS_Result(original).new
    /\ ras_ret' = RAS_Result(original).ret
    /\ ras_pc' = "done"
    /\ UNCHANGED <<original, rafVars, rawVars, rapVars, rarVars, notRev>>

\* arr5 = original.copy(); rev_arr_recursion(arr5, 0, len(arr5) - 1).
RAR_Call ==
    /\ ~RevBusy
    /\ rar_arr' = original
    /\ rar_left' = 0
    /\ rar_right' = Len(original) - 1
    /\ rar_depth' = 1
    /\ rar_ret' = "none"
    /\ rar_pc' = "test"
    /\ UNCHANGED <<original, rafVars, rawVars, rapVars, rasVars, notRev>>

\* if left >= right: return arr
RAR_Base ==
    /\ rar_pc = "test"
    /\ rar_left >= rar_right
    /\ rar_ret' = "arr"
    /\ rar_pc' = "return"
    /\ UNCHANGED <<rar_arr, rar_left, rar_right, rar_depth, original, rafVars,
                   rawVars, rapVars, rasVars, notRev>>

\* Swap, then the call rev_arr_recursion(arr, left + 1, right - 1) opens a
\* frame.
RAR_Recurse ==
    /\ rar_pc = "test"
    /\ rar_left < rar_right
    /\ rar_depth < RecursionLimit
    /\ rar_arr' = ListSwap(rar_arr, rar_left, rar_right)
    /\ rar_left' = rar_left + 1
    /\ rar_right' = rar_right - 1
    /\ rar_depth' = rar_depth + 1
    /\ UNCHANGED <<rar_pc, rar_ret, original, rafVars, rawVars, rapVars,
                   rasVars, notRev>>

\* Swap, then the same call at the recursion limit: RecursionError unwinds
\* the stack and the swaps made so far stay in the list.
RAR_Overflow ==
    /\ rar_pc = "test"
    /\ rar_left < rar_right
    /\ rar_depth >= RecursionLimit
    /\ rar_arr' = ListSwap(rar_arr, rar_left, rar_right)
    /\ rar_depth' = 0
    /\ rar_pc' = "RecursionError"
    /\ UNCHANGED <<rar_left, rar_right, rar_ret, original, rafVars, rawVars,
                   rapVars, rasVars, notRev>>

\* A frame returns what its callee returned; the outermost frame returns
\* to the caller of rev_arr_recursion.
RAR_Return ==
    /\ rar_pc = "return"
    /\ IF rar_depth = 1
       THEN /\ rar_pc' = "done"
            /\ rar_depth' = 0
            /\ UNCHANGED <<rar_left, rar_right>>
       ELSE /\ rar_depth' = rar_depth - 1
            /\ rar_left' = rar_left - 1
            /\ rar_right' = rar_right + 1
            /\ UNCHANGED rar_pc
    /\ UNCHANGED <<rar_arr, rar_ret, original, rafVars, rawVars, rapVars,
                   rasVars, notRev>>

\* No function of reverse_array.py has been called.
RevIdle ==
    /\ raf_pc = "idle" /\ raf_arr = <<>> /\ raf_i = 0 /\ raf_ret = "none"
    /\ raw_pc = "idle" /\ raw_arr = <<>> /\ raw_start = 0 /\ raw_end = 0
    /\ raw_ret = "none"
    /\ rap_pc = "idle" /\ rap_arr = <<>> /\ rap_ret = "none"
    /\ ras_pc = "idle" /\ ras_arr = <<>> /\ ras_new = <<>>
    /\ ras_ret = "none"
    /\ rar_pc = "idle" /\ rar_arr = <<>> /\ rar_left = 0 /\ rar_right = 0
    /\ rar_depth = 0 /\ rar_ret = "none"

----------------------------------------------------------------------------
(* The variant of find_prime_factors that the specification allows: the    *)
(* bound of the outer loop is recomputed from the working value m before   *)
(* every outer iteration.  It is called with the caller's n.               *)

PV_Running == pv_pc \in {"for", "while", "post"}

\* The variant is called: m = n, the result set is empty.
PV_Call ==
    /\ ~PV_Running
    /\ pv_m' = main_n
    /\ pv_i' = PF_First
    /\ pv_result' = {}
    /\ pv_pc' = "for"
    /\ UNCHANGED <<primeVars, factVars, fibVars, sortVars, palVars, revVars>>

\* The bound floor(sqrt(m)) computed from the current m admits candidate i.
PV_ForNext ==
    /\ pv_pc = "for"
    /\ MathSqrt(pv_m).exc = "none"
    /\ pv_i < RangeStop(MathSqrt(pv_m).val)
    /\ pv_pc' = "while"
    /\ UNCHANGED <<pv_m, pv_i, pv_result>>
    /\ UNCHANGED <<primeVars, factVars, fibVars, sortVars, palVars, revVars>>

\* Computing the bound raises: m is negative.
PV_ForRaise ==
    /\ pv_pc = "for"
    /\ MathSqrt(pv_m).exc # "none"
    /\ pv_pc' = MathSqrt(pv_m).exc
    /\ UNCHANGED <<pv_m, pv_i, pv_result>>
    /\ UNCHANGED <<primeVars, factVars, fibVars, sortVars, palVars, revVars>>

\* while m mod i == 0: add i to the result set; m <- m div i
PV_WhileBody ==
    /\ pv_pc = "while"
    /\ PF_WhileCond(pv_m, pv_i)
    /\ pv_result' = pv_result \cup {pv_i}
    /\ pv_m' = PF_Divide(pv_m, pv_i)
    /\ UNCHANGED <<pv_pc, pv_i>>
    /\ UNCHANGED <<primeVars, factVars, fibVars, sortVars, palVars, revVars>>

\* The while condition is false: next candidate.
PV_WhileExit ==
    /\ pv_pc = "while"
    /\ ~PF_WhileCond(pv_m, pv_i)
    /\ pv_i' = pv_i + 1
    /\ pv_pc' = "for"
    /\ UNCHANGED <<pv_m, pv_result>>
    /\ UNCHANGED <<primeVars, factVars, fibVars, sortVars, palVars, revVars>>

\* Candidate i is beyond the bound computed from the current m.
PV_ForExit ==
    /\ pv_pc = "for"
    /\ MathSqrt(pv_m).exc = "none"
    /\ pv_i >= RangeStop(MathSqrt(pv_m).val)
    /\ pv_pc' = "post"
    /\ UNCHANGED <<pv_m, pv_i, pv_result>>
    /\ UNCHANGED <<primeVars, factVars, fibVars, sortVars, palVars, revVars>>

\* If the remaining m > 1, add m to the result set; return it.
PV_Return ==
    /\ pv_pc = "post"
    /\ pv_result' = PF_PostAdd(pv_result, pv_m)
    /\ pv_pc' = "done"
    /\ UNCHANGED <<pv_m, pv_i>>
    /\ UNCHANGED <<primeVars, factVars, fibVars, sortVars, palVars, revVars>>

----------------------------------------------------------------------------

\* No call of prime_factors.py has been made.
PrimeInit ==
    /\ fd_pc = "idle" /\ fd_n = 0 /\ fd_i = 1 /\ fd_stop = 0
    /\ divisors = <<>>
    /\ pf_pc = "idle" /\ pf_n = 0 /\ pf_i = PF_First /\ pf_stop = 0
    /\ prime_factors = {} /\ pf_divs = 0
    /\ seen_kind = "none" /\ seen_n = 0 /\ seen_out = "none" /\ seen_res = <<>>
    /\ pv_pc = "idle" /\ pv_m = 0 /\ pv_i = PF_First /\ pv_result = {}

Init ==
    /\ main_n \in Inputs
    /\ PrimeInit
    /\ fact_n = 0 /\ FactIdle
    /\ fib_n = 0 /\ FibIdle
    /\ my_arr = <<>> /\ SortIdle
    /\ my_str = <<>> /\ PalIdle
    /\ original = <<>> /\ RevIdle

Next ==
    \/ \E n \in Inputs : Main_Assign(n)
    \/ FD_Call
    \/ FD_Iter
    \/ FD_Return
    \/ PF_Call
    \/ PF_ForNext
    \/ PF_WhileBody
    \/ PF_WhileExit
    \/ PF_ForExit
    \/ PF_Return

Spec == Init /\ [][Next]_vars

\* A running call is always allowed to take its next step.
FairSpec == Spec /\ WF_vars(Next)

\* The caller of Spec, who in addition may note what a call returned and
\* compare it with later calls.
NextNoting ==
    \/ \E n \in Inputs : Main_Assign(n)
    \/ FD_Call
    \/ FD_Iter
    \/ FD_Return
    \/ PF_Call
    \/ PF_ForNext
    \/ PF_WhileBody
    \/ PF_WhileExit
    \/ PF_ForExit
    \/ PF_Return
    \/ Main_NoteDivisors
    \/ Main_NotePrimeFactors

NotingSpec == Init /\ [][NextNoting]_vars

\* find_prime_factors and its variant, called with the same n.
VariantNext ==
    \/ PF_Call
    \/ PF_ForNext
    \/ PF_WhileBody
    \/ PF_WhileExit
    \/ PF_ForExit
    \/ PF_Return
    \/ PV_Call
    \/ PV_ForNext
    \/ PV_ForRaise
    \/ PV_WhileBody
    \/ PV_WhileExit
    \/ PV_ForExit
    \/ PV_Return

VariantSpec == Init /\ [][VariantNext]_vars

FactInit ==
    /\ fact_n \in FactInputs
    /\ FactIdle
    /\ main_n = 0 /\ PrimeInit
    /\ fib_n = 0 /\ FibIdle
    /\ my_arr = <<>> /\ SortIdle
    /\ my_str = <<>> /\ PalIdle
    /\ original = <<>> /\ RevIdle

FactNext ==
    \/ \E n \in FactInputs : Fact_Assign(n)
    \/ FL_Call
    \/ FL_Iter
    \/ FL_Return
    \/ FR_Call
    \/ FR_Base
    \/ FR_Recurse
    \/ FR_Overflow
    \/ FR_Return
    \/ FT_Call
    \/ FT_Base
    \/ FT_Recurse
    \/ FT_Overflow
    \/ FT_Return
    \/ FS_Call
    \/ FS_Iter
    \/ FS_Return

FactSpec == FactInit /\ [][FactNext]_vars

FibInit ==
    /\ fib_n \in FibInputs
    /\ FibIdle
    /\ main_n = 0 /\ PrimeInit
    /\ fact_n = 0 /\ FactIdle
    /\ my_arr = <<>> /\ SortIdle
    /\ my_str = <<>> /\ PalIdle
    /\ original = <<>> /\ RevIdle

FibNext ==
    \/ \E n \in FibInputs : Fib_Assign(n)
    \/ FLN_Call
    \/ FLN_Iter
    \/ FLN_Return
    \/ FBR_Call
    \/ FBR_Base
    \/ FBR_First
    \/ FBR_Overflow
    \/ FBR_Second
    \/ FBR_Sum
    \/ FBM_Call
    \/ FBM_Hit
    \/ FBM_Base
    \/ FBM_First
    \/ FBM_Overflow
    \/ FBM_Second
    \/ FBM_Store
    \/ FDP_Call
    \/ FDP_Iter
    \/ FDP_Return

FibSpec == FibInit /\ [][FibNext]_vars

SortInit ==
    /\ my_arr \in SortInputs
    /\ SortIdle
    /\ main_n = 0 /\ PrimeInit
    /\ fact_n = 0 /\ FactIdle
    /\ fib_n = 0 /\ FibIdle
    /\ my_str = <<>> /\ PalIdle
    /\ original = <<>> /\ RevIdle

SortNext ==
    \/ \E a \in SortInputs : Sort_Assign(a)
    \/ BS_Call
    \/ BS_OuterNext
    \/ BS_Inner
    \/ BS_InnerExit
    \/ BS_Return
    \/ IS_Call
    \/ IS_ForNext
    \/ IS_Shift
    \/ IS_Place
    \/ IS_Return
    \/ SS_Call
    \/ SS_OuterNext
    \/ SS_Scan
    \/ SS_Swap
    \/ SS_Return

SortSpec == SortInit /\ [][SortNext]_vars

PalInit ==
    /\ my_str \in PalInputs
    /\ PalIdle
    /\ main_n = 0 /\ PrimeInit
    /\ fact_n = 0 /\ FactIdle
    /\ fib_n = 0 /\ FibIdle
    /\ my_arr = <<>> /\ SortIdle
    /\ original = <<>> /\ RevIdle

PalNext ==
    \/ \E s \in PalInputs : Pal_Assign(s)
    \/ IPF_Call
    \/ IPF_Iter
    \/ IPF_Return
    \/ IPW_Call
    \/ IPW_Iter
    \/ IPW_Return
    \/ IPR_Call
    \/ IPR_Base
    \/ IPR_Mismatch
    \/ IPR_Recurse
    \/ IPR_Overflow
    \/ IPR_Return
    \/ IPP_Call

PalSpec == PalInit /\ [][PalNext]_vars

RevInit ==
    /\ original \in RevInputs
    /\ RevIdle
    /\ main_n = 0 /\ PrimeInit
    /\ fact_n = 0 /\ FactIdle
    /\ fib_n = 0 /\ FibIdle
    /\ my_arr = <<>> /\ SortIdle
    /\ my_str = <<>> /\ PalIdle

RevNext ==
    \/ \E a \in RevInputs : Rev_Assign(a)
    \/ RAF_Call
    \/ RAF_Iter
    \/ RAF_Return
    \/ RAW_Call
    \/ RAW_Iter
    \/ RAW_Return
    \/ RAP_Call
    \/ RAS_Call
    \/ RAR_Call
    \/ RAR_Base
    \/ RAR_Recurse
    \/ RAR_Overflow
    \/ RAR_Return

RevSpec == RevInit /\ [][RevNext]_vars

----------------------------------------------------------------------------
(* Arithmetic vocabulary of the properties.                                *)

IsPrime(p) == p >= 2 /\ \A d \in 2..(p - 1) : p % d # 0

IsSquare(n) == n >= 1 /\ FloorSqrt(n) * FloorSqrt(n) = n

RECURSIVE IsPowerOfTwo(_)
IsPowerOfTwo(n) == n >= 2 /\ (n = 2 \/ (n % 2 = 0 /\ IsPowerOfTwo(n \div 2)))

RECURSIVE Multiplicity(_, _)
\* The number of times p divides n.
Multiplicity(p, n) ==
    IF p >= 2 /\ n >= 1 /\ n % p = 0 THEN 1 + Multiplicity(p, n \div p) ELSE 0

RECURSIVE Power(_, _)
Power(b, e) == IF e = 0 THEN 1 ELSE b * Power(b, e - 1)

RECURSIVE Reconstruct(_, _)
\* The product of p^Multiplicity(p, n) over the elements p of S.
Reconstruct(S, n) ==
    IF S = {} THEN 1
    ELSE LET p == CHOOSE x \in S : TRUE
         IN  Power(p, Multiplicity(p, n)) * Reconstruct(S \ {p}, n)

Occurrences(s, x) == Cardinality({j \in DOMAIN s : s[j] = x})

----------------------------------------------------------------------------
(* Properties of find_divisors and find_prime_factors.                     *)

\* C1: for n >= 1 the list returned by find_divisors(n) holds exactly the
\* positive divisors of n, in strictly ascending order.
C1_DivisorsExact ==
    (fd_pc = "done" /\ fd_n >= 1) =>
        /\ \A j \in DOMAIN divisors :
               divisors[j] \in 1..fd_n /\ fd_n % divisors[j] = 0
        /\ \A d \in 1..fd_n :
               fd_n % d = 0 => \E j \in DOMAIN divisors : divisors[j] = d
        /\ \A j \in 1..(Len(divisors) - 1) : divisors[j] < divisors[j + 1]

C1_Witness ==
    fd_pc = "done" /\ fd_n = 60
    /\ divisors = <<1, 2, 3, 4, 5, 6, 10, 12, 15, 20, 30, 60>>

\* C2: for n >= 1 the set returned by find_prime_factors(n) contains every
\* prime dividing n, and the product of its elements, each raised to its
\* multiplicity in n, is n.
C2_PrimeFactorsComplete ==
    (pf_pc = "done" /\ main_n >= 1) =>
        /\ \A p \in 2..main_n :
               (IsPrime(p) /\ main_n % p = 0) => p \in prime_factors
        /\ Reconstruct(prime_factors, main_n) = main_n

C2_Witness ==
    pf_pc = "done" /\ main_n = 60 /\ prime_factors = {2, 3, 5}

\* C3: for n >= 1, at every point of a call of find_prime_factors(n) every
\* element of the set is a prime dividing n: neither a composite candidate
\* of the scan nor a composite residual is added.
C3_OnlyPrimes ==
    (pf_pc \in {"for", "while", "post", "done"} /\ main_n >= 1) =>
        \A p \in prime_factors : IsPrime(p) /\ main_n % p = 0

\* 36 is divisible by the composite candidates 4 and 6 of its scan.
C3_Witness ==
    pf_pc = "done" /\ main_n = 36 /\ pf_i > 6 /\ prime_factors = {2, 3}

\* C4 as stated: for negative n both functions return their empty result
\* and raise nothing.
C4_NegativeSilent ==
    /\ (fd_pc # "idle" /\ main_n < 0) => (fd_pc = "done" /\ divisors = <<>>)
    /\ (pf_pc # "idle" /\ main_n < 0) => (pf_pc = "done" /\ prime_factors = {})

\* C4 (amended): for negative n neither function returns: math.sqrt raises
\* ValueError while the range is being built, before any loop iteration.
C4_NegativeRaises ==
    /\ (fd_pc # "idle" /\ main_n < 0) =>
           (fd_pc = "ValueError" /\ fd_i = 1 /\ divisors = <<>>)
    /\ (pf_pc # "idle" /\ main_n < 0) =>
           (pf_pc = "ValueError" /\ pf_i = 2 /\ pf_divs = 0
            /\ prime_factors = {})

C4_Witness ==
    /\ fd_pc = "ValueError" /\ fd_n < 0
    /\ pf_pc = "ValueError" /\ main_n < 0

\* C5: for n = 0 both loops are no-ops: find_divisors(0) returns [] and
\* find_prime_factors(0) returns set(), nothing is raised and the inner
\* while loop is never entered.
C5_ZeroNoOp ==
    /\ (fd_pc # "idle" /\ main_n = 0) =>
           (fd_pc \in {"for", "done"} /\ fd_i = 1 /\ divisors = <<>>)
    /\ (pf_pc # "idle" /\ main_n = 0) =>
           (pf_pc \in {"for", "post", "done"} /\ pf_i = 2 /\ pf_divs = 0
            /\ prime_factors = {})

C5_Witness ==
    /\ fd_pc = "done" /\ fd_n = 0 /\ divisors = <<>>
    /\ pf_pc = "done" /\ main_n = 0 /\ prime_factors = {}

\* C6: for a perfect square n = k*k the returned list contains k exactly
\* once: the iteration at i = k appends only i, and every other dividing
\* candidate appends both i and n // i.
C6_SquareRootOnce ==
    /\ []((fd_pc = "done" /\ IsSquare(fd_n)) =>
              Occurrences(divisors, FloorSqrt(fd_n)) = 1)
    /\ [][(fd_pc = "for" /\ fd_pc' = "for" /\ IsSquare(fd_n)
           /\ fd_n % fd_i = 0) =>
              IF fd_i = FloorSqrt(fd_n)
              THEN divisors' = Append(divisors, fd_i)
              ELSE divisors' = Append(Append(divisors, fd_i), fd_n \div fd_i)
         ]_vars

C6_Witness ==
    fd_pc = "done" /\ fd_n = 16 /\ divisors = <<1, 2, 4, 8, 16>>

\* C7: for a prime n, find_divisors(n) is [1, n] and find_prime_factors(n)
\* is {n}: the scan adds nothing and leaves the working value at n, and the
\* post-loop check adds n.
C7_PrimeInput ==
    /\ (fd_pc = "done" /\ IsPrime(fd_n)) => divisors = <<1, fd_n>>
    /\ (pf_pc \in {"for", "while", "post"} /\ IsPrime(main_n)) =>
           (prime_factors = {} /\ pf_n = main_n /\ pf_divs = 0)
    /\ (pf_pc = "done" /\ IsPrime(main_n)) => prime_factors = {main_n}

C7_Witness ==
    /\ fd_pc = "done" /\ fd_n = 13 /\ divisors = <<1, 13>>
    /\ pf_pc = "done" /\ main_n = 13 /\ prime_factors = {13}

\* C8: find_divisors(1) is [1] and find_prime_factors(1) is the empty set:
\* the scan has no candidates and the post-loop check is false.
C8_One ==
    /\ (fd_pc = "done" /\ fd_n = 1) => divisors = <<1>>
    /\ (pf_pc # "idle" /\ main_n = 1) =>
           (pf_pc \in {"for", "post", "done"} /\ pf_i = 2 /\ pf_n = 1
            /\ prime_factors = {})

C8_Witness ==
    /\ fd_pc = "done" /\ fd_n = 1 /\ divisors = <<1>>
    /\ pf_pc = "done" /\ main_n = 1 /\ prime_factors = {}

\* C9 as stated: for every k >= 1, find_prime_factors(2^k) is {2}, candidate
\* 2 having divided the working value down to 1 so that the post-loop check
\* adds nothing.
C9_PowerOfTwoByScan ==
    /\ (pf_pc = "done" /\ IsPowerOfTwo(main_n)) => prime_factors = {2}
    /\ (pf_pc \in {"post", "done"} /\ IsPowerOfTwo(main_n)) =>
           (pf_n = 1 /\ pf_divs >= 1)
    /\ (pf_pc = "while" /\ pf_i > 2 /\ IsPowerOfTwo(main_n)) =>
           (pf_n = 1 /\ ~PF_WhileCond(pf_n, pf_i))

\* C9 (amended): for every k >= 1, find_prime_factors(2^k) is {2}.  For
\* k >= 2 candidate 2 divides the working value down to 1, no later
\* candidate divides it and the post-loop check adds nothing; for k = 1
\* the scan has no candidate and the post-loop check adds 2.
C9_PowerOfTwo ==
    /\ (pf_pc = "done" /\ IsPowerOfTwo(main_n)) => prime_factors = {2}
    /\ (pf_pc \in {"post", "done"} /\ IsPowerOfTwo(main_n) /\ main_n >= 4) =>
           (pf_n = 1 /\ pf_divs >= 1)
    /\ (pf_pc = "while" /\ pf_i > 2 /\ IsPowerOfTwo(main_n)) =>
           (pf_n = 1 /\ ~PF_WhileCond(pf_n, pf_i))
    /\ (pf_pc = "post" /\ main_n = 2) =>
           (pf_n = 2 /\ pf_i = 2 /\ pf_divs = 0 /\ prime_factors = {})

C9_Witness ==
    pf_pc = "done" /\ main_n = 32 /\ pf_n = 1 /\ pf_divs = 5
    /\ prime_factors = {2}

\* C10: for n >= 1 every call of find_divisors and of find_prime_factors
\* returns, and every execution of n //= i has i >= 2 and strictly
\* decreases the working value, which stays >= 1.
C10_Terminates ==
    /\ (fd_pc = "for" /\ fd_n >= 1) ~> (fd_pc = "done")
    /\ (PF_Running /\ main_n >= 1) ~> (pf_pc = "done")
    /\ [][(pf_pc = "while" /\ main_n >= 1 /\ pf_divs' # pf_divs) =>
              (pf_i >= 2 /\ pf_n' < pf_n /\ pf_n' >= 1)]_vars

\* 64 = 2^6 needs the largest number of inner divisions.
C10_Witness ==
    pf_pc = "done" /\ main_n = 64 /\ pf_divs = 6 /\ fd_pc = "done" /\ fd_n = 64

\* C11: find_divisors and find_prime_factors are deterministic and pure: a
\* call ends the way, and returns what, any earlier call with the same n
\* did, whatever calls were made in between; a running call changes neither
\* the caller's n nor what the other function returned.
C11_Pure ==
    /\ []((seen_kind = "fd" /\ fd_pc \in {"done", "ValueError"}
           /\ fd_n = seen_n) =>
              (fd_pc = seen_out /\ divisors = seen_res))
    /\ []((seen_kind = "pf" /\ pf_pc \in {"done", "ValueError"}
           /\ main_n = seen_n) =>
              (pf_pc = seen_out /\ prime_factors = seen_res))
    /\ [][(FD_Running \/ PF_Running) => main_n' = main_n]_vars
    /\ [][FD_Running => pfVars' = pfVars]_vars
    /\ [][PF_Running => fdVars' = fdVars]_vars

\* find_prime_factors(60) has returned {2, 3, 5} a second time, after the
\* first result was noted and a call of find_divisors was made.
C11_Witness ==
    /\ seen_kind = "pf" /\ seen_n = 60 /\ seen_res = {2, 3, 5}
    /\ pf_pc = "done" /\ main_n = 60 /\ pf_divs = 4
    /\ fd_pc = "done" /\ fd_n = 60

----------------------------------------------------------------------------
(* Properties of factorial.py.                                             *)

RECURSIVE Factorial(_)
\* n! for n >= 0.
Factorial(n) == IF n <= 1 THEN 1 ELSE n * Factorial(n - 1)

\* C12: factorial_safe(n) raises ValueError for every n < 0 without
\* computing a result (result is never assigned, no iteration runs), and
\* for every n >= 0 it returns n!, in particular 1 for n = 0.
C12_FactorialSafe ==
    /\ (fs_pc # "idle" /\ fact_n < 0) =>
           (fs_pc = "ValueError" /\ fs_result = 0 /\ fs_i = 1)
    /\ (fs_pc # "idle" /\ fact_n >= 0) => fs_pc \in {"for", "done"}
    /\ (fs_pc = "done") => fs_result = Factorial(fact_n)
    /\ (fs_pc = "done" /\ fact_n = 0) => fs_result = 1

\* factorial_safe(-2) has raised, after fact_loop(-2) returned 1.
C12_Witness ==
    fs_pc = "ValueError" /\ fact_n = -2 /\ fs_result = 0
    /\ fl_pc = "done" /\ fl_result = 1

\* C13 as stated: for every n >= 0, fact_loop, fact_rec, fact_tail and
\* factorial_safe all return n!.
C13_AllReturnFactorial ==
    fact_n >= 0 =>
        /\ fl_pc \in {"idle", "for", "done"}
        /\ fr_pc \in {"idle", "test", "return", "done"}
        /\ ft_pc \in {"idle", "test", "return", "done"}
        /\ fs_pc \in {"idle", "for", "done"}
        /\ fl_pc = "done" => fl_result = Factorial(fact_n)
        /\ fr_pc = "done" => fr_ret = Factorial(fact_n)
        /\ ft_pc = "done" => ft_ret = Factorial(fact_n)
        /\ fs_pc = "done" => fs_result = Factorial(fact_n)

\* C13 (amended): for every n >= 0, fact_loop and factorial_safe return n!;
\* fact_rec and fact_tail return n! as long as their n nested calls fit the
\* interpreter's recursion limit, and raise RecursionError otherwise.  The
\* value is 1 for n = 0 and n = 1.
C13_AgreeWithinLimit ==
    fact_n >= 0 =>
        /\ fl_pc \in {"idle", "for", "done"}
        /\ fs_pc \in {"idle", "for", "done"}
        /\ fl_pc = "done" => fl_result = Factorial(fact_n)
        /\ fs_pc = "done" => fs_result = Factorial(fact_n)
        /\ fact_n <= RecursionLimit =>
               /\ fr_pc \in {"idle", "test", "return", "done"}
               /\ ft_pc \in {"idle", "test", "return", "done"}
               /\ fr_pc = "done" => fr_ret = Factorial(fact_n)
               /\ ft_pc = "done" => ft_ret = Factorial(fact_n)
        /\ fact_n > RecursionLimit =>
               /\ fr_pc \in {"idle", "test", "RecursionError"}
               /\ ft_pc \in {"idle", "test", "RecursionError"}
        /\ (fact_n \in {0, 1} /\ fl_pc = "done" /\ fr_pc = "done"
            /\ ft_pc = "done" /\ fs_pc = "done") =>
               (fl_result = 1 /\ fr_ret = 1 /\ ft_ret = 1 /\ fs_result = 1)

C13_Witness ==
    /\ fact_n = 5
    /\ fl_pc = "done" /\ fl_result = 120
    /\ fr_pc = "done" /\ fr_ret = 120
    /\ ft_pc = "done" /\ ft_ret = 120
    /\ fs_pc = "done" /\ fs_result = 120

----------------------------------------------------------------------------
(* Properties of fibonacci.py.                                             *)

RECURSIVE Fib(_)
\* F(0) = 0, F(1) = 1, F(n) = F(n-1) + F(n-2).
Fib(n) == IF n = 0 THEN 0 ELSE IF n = 1 THEN 1 ELSE Fib(n - 1) + Fib(n - 2)

\* C14 as stated: for every n >= 0, fib_loop_nth, fib_rec, fib_memo and
\* fib_dp all return F(n).
C14_AllReturnFib ==
    fib_n >= 0 =>
        /\ fln_pc \in {"idle", "for", "done"}
        /\ fbr_pc \in {"idle", "call", "return", "done"}
        /\ fbm_pc \in {"idle", "call", "return", "done"}
        /\ fdp_pc \in {"idle", "for", "done"}
        /\ fln_pc = "done" => fln_a = Fib(fib_n)
        /\ fbr_pc = "done" => fbr_ret = Fib(fib_n)
        /\ fbm_pc = "done" => fbm_ret = Fib(fib_n)
        /\ fdp_pc = "done" => fdp_ret = Fib(fib_n)

\* C14 (amended): for every n >= 0, fib_loop_nth and fib_dp return F(n);
\* fib_rec and fib_memo return F(n) as long as their n nested calls fit the
\* interpreter's recursion limit, and raise RecursionError otherwise.
C14_AgreeWithinLimit ==
    fib_n >= 0 =>
        /\ fln_pc \in {"idle", "for", "done"}
        /\ fdp_pc \in {"idle", "for", "done"}
        /\ fln_pc = "done" => fln_a = Fib(fib_n)
        /\ fdp_pc = "done" => fdp_ret = Fib(fib_n)
        /\ fib_n <= RecursionLimit =>
               /\ fbr_pc \in {"idle", "call", "return", "done"}
               /\ fbm_pc \in {"idle", "call", "return", "done"}
               /\ fbr_pc = "done" => fbr_ret = Fib(fib_n)
               /\ fbm_pc = "done" => fbm_ret = Fib(fib_n)
        /\ fib_n > RecursionLimit =>
               /\ fbr_pc \in {"idle", "call", "RecursionError"}
               /\ fbm_pc \in {"idle", "call", "RecursionError"}

C14_Witness ==
    /\ fib_n = 6
    /\ fln_pc = "done" /\ fln_a = 8
    /\ fbr_pc = "done" /\ fbr_ret = 8
    /\ fbm_pc = "done" /\ fbm_ret = 8 /\ DOMAIN fbm_memo = {2, 3, 4, 5, 6}
    /\ fdp_pc = "done" /\ fdp_ret = 8

----------------------------------------------------------------------------
(* Properties of the sorting functions.                                    *)

IsNonDecreasing(a) == \A k \in 1..(Len(a) - 1) : a[k] <= a[k + 1]

\* a and b hold the same elements, each the same number of times.
IsPermutation(a, b) ==
    /\ Len(a) = Len(b)
    /\ \A v \in 1..MaxSortVal : Occurrences(a, v) = Occurrences(b, v)

\* C15: for every list, each of the three sorting functions returns the
\* list object it was given, holding a permutation of the input in
\* non-decreasing order (duplicates preserved).
C15_Sorted ==
    /\ bs_pc = "done" =>
           (bs_ret = "arr" /\ IsNonDecreasing(bs_arr)
            /\ IsPermutation(bs_arr, my_arr))
    /\ is_pc = "done" =>
           (is_ret = "arr" /\ IsNonDecreasing(is_arr)
            /\ IsPermutation(is_arr, my_arr))
    /\ ss_pc = "done" =>
           (ss_ret = "arr" /\ IsNonDecreasing(ss_arr)
            /\ IsPermutation(ss_arr, my_arr))

C15_Witness ==
    /\ my_arr = <<3, 1, 2, 1>>
    /\ bs_pc = "done" /\ bs_arr = <<1, 1, 2, 3>>
    /\ is_pc = "done" /\ is_arr = <<1, 1, 2, 3>>
    /\ ss_pc = "done" /\ ss_arr = <<1, 1, 2, 3>>

----------------------------------------------------------------------------
(* Properties of palindrome.py.                                            *)

\* s reads the same in both directions.
IsPalindrome(s) == \A k \in 1..Len(s) : s[k] = s[Len(s) + 1 - k]

\* Number of frames is_palindrome_rec(s, 0, len(s) - 1) needs: one, plus
\* one for each leading pair of equal characters.
PalFrames(s) ==
    1 + Cardinality({k \in 1..(Len(s) \div 2) :
                        \A j \in 1..k : s[j] = s[Len(s) + 1 - j]})

\* C16 as stated: for every string the four functions return the same
\* boolean, True exactly when the string equals its reverse.
C16_AllAgree ==
    /\ ipr_pc \in {"idle", "test", "return", "done"}
    /\ ipf_pc = "done" => ipf_ret = IsPalindrome(my_str)
    /\ ipw_pc = "done" => ipw_ret = IsPalindrome(my_str)
    /\ ipr_pc = "done" => ipr_ret = IsPalindrome(my_str)
    /\ ipp_pc = "done" => ipp_ret = IsPalindrome(my_str)

\* C16 (amended): is_palindrome_for_loop, is_palindrome_while_loop and
\* is_palindrome_pythonic return True exactly when the string equals its
\* reverse, for every string; is_palindrome_rec returns the same boolean as
\* long as the frames it needs (one per leading pair of equal characters,
\* plus one) fit the interpreter's recursion limit, and raises
\* RecursionError otherwise.
C16_AgreeWithinLimit ==
    /\ ipf_pc = "done" => ipf_ret = IsPalindrome(my_str)
    /\ ipw_pc = "done" => ipw_ret = IsPalindrome(my_str)
    /\ ipp_pc = "done" => ipp_ret = IsPalindrome(my_str)
    /\ PalFrames(my_str) <= RecursionLimit =>
           /\ ipr_pc \in {"idle", "test", "return", "done"}
           /\ ipr_pc = "done" => ipr_ret = IsPalindrome(my_str)
    /\ PalFrames(my_str) > RecursionLimit =>
           ipr_pc \in {"idle", "test", "RecursionError"}

C16_Witness ==
    /\ my_str = <<"a", "b", "b", "a">>
    /\ ipf_pc = "done" /\ ipf_ret
    /\ ipw_pc = "done" /\ ipw_ret
    /\ ipr_pc = "done" /\ ipr_ret
    /\ ipp_pc = "done" /\ ipp_ret

----------------------------------------------------------------------------
(* Properties of reverse_array.py.                                         *)

\* a holds the elements of b in the opposite order.
IsReverseOf(a, b) ==
    /\ Len(a) = Len(b)
    /\ \A k \in 1..Len(a) : a[k] = b[Len(b) + 1 - k]

\* Number of frames rev_arr_recursion(arr, 0, len(arr) - 1) needs.
RevFrames(a) == Len(a) \div 2 + 1

\* C17 as stated: for every list the for-loop, while-loop and recursive
\* versions leave the list reversed and return it, the pythonic version
\* leaves it reversed and returns None, and the contents equal the slicing
\* of the original.
C17_AllReverse ==
    /\ rar_pc \in {"idle", "test", "return", "done"}
    /\ raf_pc = "done" =>
           (raf_ret = "arr" /\ raf_arr = SliceReversed(original))
    /\ raw_pc = "done" =>
           (raw_ret = "arr" /\ raw_arr = SliceReversed(original))
    /\ rar_pc = "done" =>
           (rar_ret = "arr" /\ rar_arr = SliceReversed(original))
    /\ rap_pc = "done" =>
           (rap_ret = "None" /\ rap_arr = SliceReversed(original))

\* C17 (amended): rev_arr_for_loop and rev_arr_while_loop leave the list
\* holding its original elements in reverse order and return that list, and
\* rev_arr_pythonic leaves it reversed and returns None, for every list;
\* rev_arr_recursion does the same as long as its len // 2 + 1 frames fit
\* the interpreter's recursion limit and raises RecursionError otherwise.
\* The reversed contents equal the slicing of the original.
C17_ReverseWithinLimit ==
    /\ raf_pc = "done" =>
           /\ raf_ret = "arr"
           /\ IsReverseOf(raf_arr, original)
           /\ raf_arr = SliceReversed(original)
    /\ raw_pc = "done" =>
           /\ raw_ret = "arr"
           /\ IsReverseOf(raw_arr, original)
           /\ raw_arr = SliceReversed(original)
    /\ rap_pc = "done" =>
           /\ rap_ret = "None"
           /\ IsReverseOf(rap_arr, original)
           /\ rap_arr = SliceReversed(original)
    /\ RevFrames(original) <= RecursionLimit =>
           /\ rar_pc \in {"idle", "test", "return", "done"}
           /\ rar_pc = "done" =>
                  /\ rar_ret = "arr"
                  /\ IsReverseOf(rar_arr, original)
                  /\ rar_arr = SliceReversed(original)
    /\ RevFrames(original) > RecursionLimit =>
           rar_pc \in {"idle", "test", "RecursionError"}

C17_Witness ==
    /\ original = <<1, 2, 3, 3>>
    /\ raf_pc = "done" /\ raf_arr = <<3, 3, 2, 1>>
    /\ raw_pc = "done" /\ raw_arr = <<3, 3, 2, 1>>
    /\ rar_pc = "done" /\ rar_arr = <<3, 3, 2, 1>>
    /\ rap_pc = "done" /\ rap_arr = <<3, 3, 2, 1>> /\ rap_ret = "None"

\* C18: rev_arr_slicing never modifies its argument: after the call the
\* argument holds the same elements in the same order, and the returned
\* reversed list is a distinct object.
C18_SlicingPreserves ==
    ras_pc = "done" =>
        /\ ras_arr = original
        /\ ras_ret = "new"
        /\ IsReverseOf(ras_new, original)

C18_Witness ==
    /\ original = <<1, 2, 3>>
    /\ ras_pc = "done"
    /\ ras_arr = <<1, 2, 3>>
    /\ ras_new = <<3, 2, 1>>

----------------------------------------------------------------------------
(* Properties of the outer-loop bound of find_prime_factors.               *)

\* C19: find_prime_factors computes the bound of its outer loop once, from
\* the original n, and the variant that recomputes the bound from the
\* current m before every outer iteration returns the same set for every
\* n >= 1.
C19_VariantSameSet ==
    main_n >= 1 =>
        /\ pf_pc \in {"for", "while", "post", "done"} =>
               pf_stop = FloorSqrt(main_n) + 1
        /\ (pf_pc = "done" /\ pv_pc = "done") => pv_result = prime_factors

C19_Witness ==
    /\ main_n = 60
    /\ pf_pc = "done" /\ prime_factors = {2, 3, 5} /\ pf_i = 8
    /\ pv_pc = "done" /\ pv_result = {2, 3, 5} /\ pv_i = 4

\* C20: for every n >= 1, a working value m > 1 left after the outer scan
\* is a prime strictly greater than the square root of the original n, and
\* the returned set holds at most one element greater than sqrt(n).
C20_RemainderIsLargePrime ==
    main_n >= 1 =>
        /\ (pf_pc = "post" /\ pf_n > 1) =>
               (IsPrime(pf_n) /\ pf_n * pf_n > main_n)
        /\ pf_pc = "done" =>
               Cardinality({p \in prime_factors : p * p > main_n}) <= 1

C20_Witness ==
    /\ main_n = 42
    /\ pf_pc = "done"
    /\ pf_n = 7
    /\ prime_factors = {2, 3, 7}

----------------------------------------------------------------------------
(* Size and loop invariants of find_prime_factors.                         *)

\* The primes that divide k.
PrimeFactorsOf(k) == {p \in 2..k : IsPrime(p) /\ k % p = 0}

\* C21: for every n >= 1, each inner division n //= i at least halves the
\* working value, and the number of inner divisions of a run never exceeds
\* floor(log2(n)): 2^divisions <= n.
C21_DivisionsHalve ==
    /\ [][(main_n >= 1 /\ pf_divs' = pf_divs + 1) => 2 * pf_n' <= pf_n]_vars
    /\ []((main_n >= 1 /\ pf_pc \in {"for", "while", "post", "done"}) =>
              Power(2, pf_divs) <= main_n)

\* 64 = 2^6 reaches the bound.
C21_Witness ==
    /\ main_n = 64
    /\ pf_pc = "done"
    /\ pf_divs = 6
    /\ pf_n = 1

\* C22: for every n >= 1 the set returned by find_prime_factors(n) has at
\* most log2(n) elements: 2^|result| <= n.
C22_ResultSize ==
    (main_n >= 1 /\ pf_pc = "done") =>
        Power(2, Cardinality(prime_factors)) <= main_n

C22_Witness ==
    /\ main_n = 30
    /\ pf_pc = "done"
    /\ prime_factors = {2, 3, 5}

\* C23: loop invariant of find_prime_factors for n >= 1: the working value
\* is >= 1 and divides the original n, every prime factor of
\* (original n) / (working value) is already in the result set, and while
\* the outer loop is at candidate i no prime smaller than i divides the
\* working value.
C23_LoopInvariant ==
    (main_n >= 1 /\ pf_pc \in {"for", "while", "post", "done"}) =>
        /\ pf_n >= 1
        /\ main_n % pf_n = 0
        /\ PrimeFactorsOf(main_n \div pf_n) \subseteq prime_factors
        /\ pf_pc \in {"for", "while"} =>
               \A q \in 2..(pf_i - 1) : IsPrime(q) => pf_n % q # 0

C23_Witness ==
    /\ main_n = 60
    /\ pf_pc = "while"
    /\ pf_i = 3
    /\ pf_n = 15
    /\ prime_factors = {2}

----------------------------------------------------------------------------
(* Invariant and swap count of selection_sort.                             *)

\* C24: after the outer iteration for index i completes (the loop is back
\* at its head with i + 1 iterations done), arr[0..i] holds the i + 1
\* smallest elements of the input in non-decreasing order, every element of
\* arr[i+1..n-1] is >= arr[i], and arr is a permutation of the input.
C24_SelectionInvariant ==
    (ss_pc = "outer" /\ ss_i >= 1) =>
        /\ SubSeq(ss_arr, 1, ss_i) = SubSeq(ListSort(my_arr), 1, ss_i)
        /\ IsNonDecreasing(SubSeq(ss_arr, 1, ss_i))
        /\ \A k \in ss_i..(Len(ss_arr) - 1) :
               At(ss_arr, k) >= At(ss_arr, ss_i - 1)
        /\ IsPermutation(ss_arr, my_arr)

C24_Witness ==
    /\ my_arr = <<3, 1, 2, 1>>
    /\ ss_pc = "outer"
    /\ ss_i = 1
    /\ ss_arr = <<1, 3, 2, 1>>

\* C25: on a list of length n >= 1 selection_sort performs at most n - 1
\* swaps over the whole run, and on an already sorted list it performs no
\* swap.
C25_SwapCount ==
    (ss_pc = "done" /\ Len(my_arr) >= 1) =>
        /\ ss_swaps <= Len(my_arr) - 1
        /\ IsNonDecreasing(my_arr) => ss_swaps = 0

====
